---- MODULE Spec2Model ----
(***************************************************************************)
(* A model of vue-router 3.4.9: the route table builder                    *)
(* (create-route-map.js), the matcher (create-matcher.js, util/location.js,*)
(* util/params.js, util/path.js) and the transition engine                 *)
(* (history/base.js, history/html5.js, index.js).                          *)
(*                                                                         *)
(* Strings are sequences of tokens: the token "/" is the separator, every  *)
(* other token is a slash-free piece of text ("a", ":id", "*", "..").      *)
(* '/user/:id' is <<"/", "user", "/", ":id">>, '' is <<>>.                 *)
(***************************************************************************)
EXTENDS Integers, Sequences, FiniteSets, TLC

VARIABLES
    production,  \* process.env.NODE_ENV === 'production'
    records,     \* every RouteRecord object created so far, by identity
    pathList,    \* createMatcher's pathList
    pathMap,     \* createMatcher's pathMap: path -> record identity
    nameMap,     \* createMatcher's nameMap: name -> record identity
    regLog,      \* history: every registration test `!pathMap[record.path]`, in order
    nameLog,     \* history: every registration test `!nameMap[name]`, in order
    calls,       \* history: number of createRouteMap calls so far
    mraw,        \* match(raw, currentRoute): the raw location of the call
    mcur,        \* match(raw, currentRoute): the current route of the call
    mres,        \* what the call returned or threw; NoResult before it
    rconf,       \* resolve(to, current, append): the append argument and router.mode
    resolved,    \* history: what each resolve call so far returned or threw
    qcall,       \* resolveQueue(current, next): the two chains of records of the call
    queued,      \* what the call returned and the guards extracted from it; NoQueue before
    pathCall,    \* resolvePath(relative, base, append): the arguments of the call
    pathResolved, \* what the call returned; NoPath before
    app,         \* router.app is set: init(app) has run
    current,     \* history.current
    currentId,   \* identity of the Route object in history.current; 0 is START
    pending,     \* history.pending as the identity of a Route object; 0 is null
    ready,       \* history.ready
    readyCbs,    \* history.readyCbs: the callbacks by the number of their onReady call
    readyErrorCbs, \* history.readyErrorCbs, likewise
    committed,   \* history: some transitionTo call has run updateRoute
    listeners,   \* history.listeners: the cleanup functions, by what they remove
    registered,  \* window: the handleRoutingEvent listeners registered for popstate
    url,         \* window.location: pathname + search + hash
    beforeHooks, \* router.beforeHooks
    resolveHooks, \* router.resolveHooks
    afterHooks,  \* router.afterHooks
    attempts,    \* the transitionTo calls so far: the closure of each confirmTransition
    budget,      \* transitionTo calls the behaviour may still make
    last         \* history: what the last handler did

tableVars == <<production, records, pathList, pathMap, nameMap, regLog, nameLog, calls>>

matchVars == <<mraw, mcur, mres, rconf, resolved, qcall, queued, pathCall, pathResolved>>

hookVars == <<beforeHooks, resolveHooks, afterHooks>>

engineVars == <<app, current, currentId, pending, ready, readyCbs, readyErrorCbs,
                committed, listeners, registered, url, hookVars, attempts, budget, last>>

vars == <<tableVars, matchVars, engineVars>>

----------------------------------------------------------------------------
(* Bounds *)

MaxAddRoutes == 1     \* addRoutes calls after the initial build
MaxRoutes == 2        \* configs per createRouteMap call
MaxMatchRoutes == 3   \* configs of a table the matcher is run on
MaxNavigations == 3   \* transitionTo calls in a behaviour of the engine
StackLimit == 6       \* nested match calls the call stack has room for

\* transitionTo calls whose guard queue is suspended at the same time
MaxOverlap == 2
\* onReady calls before the history is ready
MaxReadyCbs == 2
\* transitionTo calls in a behaviour of the application with one hook
MaxRouterNavigations == 2
\* segments of a path given to resolvePath
MaxSegments == 3

----------------------------------------------------------------------------
(* Strings *)

S(t) == <<"/", t>>

Last(s) == s[Len(s)]

Front(s) == SubSeq(s, 1, Len(s) - 1)

NoRedirect == [kind |-> "none", path |-> <<>>, name |-> ""]

RedirectPath(p) == [kind |-> "path", path |-> p, name |-> ""]

RedirectName(n) == [kind |-> "name", path |-> <<>>, name |-> n]

\* path.replace(/\/\//g, '/'): left to right, non-overlapping
RECURSIVE cleanPath(_)
cleanPath(path) ==
    IF Len(path) < 2 THEN path
    ELSE IF path[1] = "/" /\ path[2] = "/"
         THEN <<"/">> \o cleanPath(SubSeq(path, 3, Len(path)))
         ELSE <<path[1]>> \o cleanPath(Tail(path))

----------------------------------------------------------------------------
(* Route table builder: create-route-map.js *)

\* A RouteConfig. name "" and alias <<>> stand for an absent name / alias,
\* children <<>> for absent children.
Config(path, name, children, alias, redirect) ==
    [path |-> path, name |-> name, children |-> children, alias |-> alias,
     redirect |-> redirect, component |-> IF name = "" THEN "C" ELSE name,
     beforeEnter |-> FALSE]

\* parent is a record identity, 0 for no parent
normalizePath(path, parent, recs) ==
    LET p == IF Len(path) > 0 /\ Last(path) = "/" THEN Front(path) ELSE path
    IN IF Len(p) > 0 /\ p[1] = "/" THEN p
       ELSE IF parent = 0 THEN p
       ELSE cleanPath(recs[parent].path \o <<"/">> \o p)

EmptyTable == [records |-> <<>>, pathList |-> <<>>, pathMap |-> <<>>,
               nameMap |-> <<>>, regLog |-> <<>>, nameLog |-> <<>>]

\* mutant: the last registration of a path wins
registerPathLastWins(t, path, id) ==
    LET logged == [t EXCEPT !.regLog = Append(@, <<path, id>>)]
    IN IF path \notin DOMAIN t.pathMap
       THEN [logged EXCEPT !.pathList = Append(@, path),
                           !.pathMap = (path :> id) @@ @]
       ELSE [logged EXCEPT !.pathMap = (path :> id) @@ @]

\* if (!pathMap[record.path]) { pathList.push(record.path); pathMap[record.path] = record }
registerPath(t, path, id) ==
    LET logged == [t EXCEPT !.regLog = Append(@, <<path, id>>)]
    IN IF path \notin DOMAIN t.pathMap
       THEN [logged EXCEPT !.pathList = Append(@, path),
                           !.pathMap = (path :> id) @@ @]
       ELSE logged

\* mutant: a later registration of a name takes the name over
registerNameLastWins(t, name, id) ==
    IF name = "" THEN t
    ELSE [t EXCEPT !.nameLog = Append(@, <<name, id>>),
                   !.nameMap = (name :> id) @@ @]

\* if (name) { if (!nameMap[name]) nameMap[name] = record }
registerName(t, name, id) ==
    IF name = "" THEN t
    ELSE LET logged == [t EXCEPT !.nameLog = Append(@, <<name, id>>)]
         IN IF name \notin DOMAIN t.nameMap
            THEN [logged EXCEPT !.nameMap = (name :> id) @@ @]
            ELSE logged

RECURSIVE addRouteRecord(_, _, _, _, _)
RECURSIVE addChildren(_, _, _, _, _, _)
RECURSIVE addAliases(_, _, _, _, _, _)

\* mutant: the name is registered only when the path was
addRouteRecordNameWithPath(t, route, parent, matchAs, prod) ==
    LET normalizedPath == normalizePath(route.path, parent, t.records)
        id == Len(t.records) + 1
        record == [path |-> normalizedPath,
                   name |-> route.name,
                   parent |-> parent,
                   matchAs |-> matchAs,
                   redirect |-> route.redirect,
                   component |-> route.component,
                   beforeEnter |-> route.beforeEnter]
        created == [t EXCEPT !.records = Append(@, record)]
        withChildren == addChildren(created, route.children, id, matchAs, prod, 1)
        withPath == registerPath(withChildren, normalizedPath, id)
        withAliases == addAliases(withPath, route, parent, id, prod, 1)
    IN IF normalizedPath \in DOMAIN withChildren.pathMap THEN withAliases
       ELSE registerName(withAliases, route.name, id)

\* mutant: the path of a record is registered before its children
addRouteRecordParentFirst(t, route, parent, matchAs, prod) ==
    LET normalizedPath == normalizePath(route.path, parent, t.records)
        id == Len(t.records) + 1
        record == [path |-> normalizedPath,
                   name |-> route.name,
                   parent |-> parent,
                   matchAs |-> matchAs,
                   redirect |-> route.redirect,
                   component |-> route.component,
                   beforeEnter |-> route.beforeEnter]
        created == [t EXCEPT !.records = Append(@, record)]
        withPath == registerPath(created, normalizedPath, id)
        withChildren == addChildren(withPath, route.children, id, matchAs, prod, 1)
        withAliases == addAliases(withChildren, route, parent, id, prod, 1)
    IN registerName(withAliases, route.name, id)

addRouteRecord(t, route, parent, matchAs, prod) ==
    LET normalizedPath == normalizePath(route.path, parent, t.records)
        id == Len(t.records) + 1
        record == [path |-> normalizedPath,
                   name |-> route.name,
                   parent |-> parent,
                   matchAs |-> matchAs,
                   redirect |-> route.redirect,
                   component |-> route.component,
                   beforeEnter |-> route.beforeEnter]
        created == [t EXCEPT !.records = Append(@, record)]
        withChildren == addChildren(created, route.children, id, matchAs, prod, 1)
        withPath == registerPath(withChildren, normalizedPath, id)
        withAliases == addAliases(withPath, route, parent, id, prod, 1)
    IN registerName(withAliases, route.name, id)

\* route.children.forEach(child => addRouteRecord(..., child, record, childMatchAs))
addChildren(t, children, id, matchAs, prod, i) ==
    IF i > Len(children) THEN t
    ELSE LET child == children[i]
             childMatchAs == IF matchAs # <<>>
                             THEN cleanPath(matchAs \o <<"/">> \o child.path)
                             ELSE <<>>
         IN addChildren(addRouteRecord(t, child, id, childMatchAs, prod),
                        children, id, matchAs, prod, i + 1)

\* for (let i = 0; i < aliases.length; ++i) { ... addRouteRecord(aliasRoute, parent, record.path || '/') }
addAliases(t, route, parent, id, prod, i) ==
    IF i > Len(route.alias) THEN t
    ELSE LET alias == route.alias[i]
             aliasRoute == [path |-> alias, name |-> "", children |-> route.children,
                            alias |-> <<>>, redirect |-> NoRedirect,
                            component |-> "", beforeEnter |-> FALSE]
             recordPath == t.records[id].path
             target == IF recordPath # <<>> THEN recordPath ELSE <<"/">>
         IN IF ~prod /\ alias = route.path
            THEN addAliases(t, route, parent, id, prod, i + 1)
            ELSE addAliases(addRouteRecord(t, aliasRoute, parent, target, prod),
                            route, parent, id, prod, i + 1)

RECURSIVE addRoutesFrom(_, _, _, _)
addRoutesFrom(t, routes, prod, i) ==
    IF i > Len(routes) THEN t
    ELSE LET added == addRouteRecord(t, routes[i], 0, <<>>, prod)
         IN \* the test is never true: it makes TLC compute one route at a time
            IF added.records = <<>> THEN added
            ELSE addRoutesFrom(added, routes, prod, i + 1)

\* mutant: the loop runs over the whole list but moves nothing
moveWildcardsNowhere(list, i, l) == list

\* for (let i = 0, l = pathList.length; i < l; i++) if (pathList[i] === '*') { push(splice(i,1)); l--; i-- }
\* i is the 0-based loop index; list positions are 1-based
RECURSIVE moveWildcards(_, _, _)
moveWildcards(list, i, l) ==
    IF i >= l THEN list
    ELSE IF list[i + 1] = <<"*">>
         THEN moveWildcards(SubSeq(list, 1, i) \o SubSeq(list, i + 2, Len(list)) \o <<list[i + 1]>>,
                            i, l - 1)
         ELSE moveWildcards(list, i + 1, l)

createRouteMap(routes, old, prod) ==
    LET added == addRoutesFrom(old, routes, prod, 1)
    IN [added EXCEPT !.pathList = moveWildcards(@, 0, Len(@))]

----------------------------------------------------------------------------
(* Path patterns: the path-to-regexp library as the router uses it.        *)
(* A key token is ':name', ':name?' or '*'; all text is lower case, so the *)
(* default case-insensitive match is equality of tokens.                   *)

Undefined == <<"<undefined>">>

EmptyMap == [k \in {} |-> <<>>]

KeyOf ==
    (":id" :> [name |-> "id", optional |-> FALSE, asterisk |-> FALSE]) @@
    (":x"  :> [name |-> "x",  optional |-> FALSE, asterisk |-> FALSE]) @@
    (":o?" :> [name |-> "o",  optional |-> TRUE,  asterisk |-> FALSE]) @@
    ("*"   :> [name |-> "0",  optional |-> FALSE, asterisk |-> TRUE])

IsKey(tok) == tok \in DOMAIN KeyOf

\* regex.keys of Regexp(path, [], pathToRegexpOptions)
compileRouteRegex(path) ==
    LET idx == { i \in 1..Len(path) : IsKey(path[i]) }
        RECURSIVE keysFrom(_)
        keysFrom(i) == IF i > Len(path) THEN <<>>
                       ELSE IF i \in idx THEN <<KeyOf[path[i]]>> \o keysFrom(i + 1)
                       ELSE keysFrom(i + 1)
    IN keysFrom(1)

NoMatch == [ok |-> FALSE, caps |-> <<>>]

\* path.match(regex) for the non-strict, end-anchored regular expression of
\* pattern pat: the captures, one per key, Undefined for an absent optional
RECURSIVE regexExec(_, _, _)
regexExec(pat, path, caps) ==
    IF pat = <<>> \/ pat = <<"/">>
    THEN IF path = <<>> \/ path = <<"/">> THEN [ok |-> TRUE, caps |-> caps] ELSE NoMatch
    ELSE IF pat[1] = "*"
    THEN IF Len(pat) = 1 THEN [ok |-> TRUE, caps |-> Append(caps, path)] ELSE NoMatch
    ELSE IF pat[1] = "/" /\ pat[2] = "*"
    THEN IF Len(pat) = 2 /\ Len(path) >= 1 /\ path[1] = "/"
         THEN [ok |-> TRUE, caps |-> Append(caps, Tail(path))]
         ELSE NoMatch
    ELSE IF pat[1] = "/" /\ IsKey(pat[2])
    THEN LET rest == SubSeq(pat, 3, Len(pat))
             taken == IF Len(path) >= 2 /\ path[1] = "/" /\ path[2] # "/"
                      THEN regexExec(rest, SubSeq(path, 3, Len(path)),
                                     Append(caps, <<path[2]>>))
                      ELSE NoMatch
         IN IF taken.ok THEN taken
            ELSE IF KeyOf[pat[2]].optional
                 THEN regexExec(rest, path, Append(caps, Undefined))
                 ELSE NoMatch
    ELSE IF Len(path) >= 1 /\ path[1] = pat[1]
    THEN regexExec(Tail(pat), Tail(path), caps)
    ELSE NoMatch

\* matchRoute(regex, path, params): params[key.name || 'pathMatch'] = m[i]
matchRoute(pattern, path, params) ==
    LET m == regexExec(pattern, path, <<>>)
        keys == compileRouteRegex(pattern)
        RECURSIVE assign(_, _)
        assign(i, ps) ==
            IF i > Len(m.caps) THEN ps
            ELSE LET key == IF keys[i].asterisk THEN "pathMatch" ELSE keys[i].name
                 IN assign(i + 1, (key :> m.caps[i]) @@ ps)
    IN IF ~m.ok THEN [ok |-> FALSE, params |-> params]
       ELSE [ok |-> TRUE, params |-> assign(1, params)]

\* Regexp.compile(path)(params, { pretty: true }); thrown |-> TRUE is the TypeError
RECURSIVE filler(_, _)
filler(pat, params) ==
    IF pat = <<>> THEN [thrown |-> FALSE, out |-> <<>>]
    ELSE LET prefixed == Len(pat) >= 2 /\ pat[1] = "/" /\ IsKey(pat[2])
             bare == IsKey(pat[1])
         IN IF ~prefixed /\ ~bare
            THEN LET r == filler(Tail(pat), params)
                 IN IF r.thrown THEN r ELSE [r EXCEPT !.out = <<pat[1]>> \o @]
            ELSE LET key == KeyOf[IF bare THEN pat[1] ELSE pat[2]]
                     prefix == IF bare THEN <<>> ELSE <<"/">>
                     rest == IF bare THEN Tail(pat) ELSE SubSeq(pat, 3, Len(pat))
                     value == IF key.name \in DOMAIN params THEN params[key.name]
                              ELSE Undefined
                     r == filler(rest, params)
                 IN IF value = Undefined
                    THEN IF key.optional THEN r ELSE [thrown |-> TRUE, out |-> <<>>]
                    ELSE IF ~key.asterisk /\ (Len(value) # 1 \/ value[1] = "/")
                    THEN [thrown |-> TRUE, out |-> <<>>]
                    ELSE IF r.thrown THEN r
                    ELSE [r EXCEPT !.out = prefix \o value \o @]

\* util/params.js
fillParams(path, params) ==
    LET withZero == IF "pathMatch" \in DOMAIN params /\ params["pathMatch"] # Undefined
                    THEN ("0" :> params["pathMatch"]) @@ params
                    ELSE params
        r == filler(path, withZero)
    IN IF r.thrown THEN <<>> ELSE r.out

----------------------------------------------------------------------------
(* util/path.js *)

\* s.split('/'): the pieces between separators, "" for an empty piece
RECURSIVE split(_)
split(s) ==
    IF s = <<>> THEN <<"">>
    ELSE IF s[1] = "/" THEN <<"">> \o split(Tail(s))
    ELSE IF Len(s) = 1 THEN <<s[1]>>
    ELSE IF s[2] = "/" THEN <<s[1]>> \o split(SubSeq(s, 3, Len(s)))
    ELSE <<s[1]>> \o split(Tail(s))

\* stack.join('/')
RECURSIVE join(_)
join(stack) ==
    IF stack = <<>> THEN <<>>
    ELSE LET piece == IF stack[1] = "" THEN <<>> ELSE <<stack[1]>>
         IN IF Len(stack) = 1 THEN piece
            ELSE piece \o <<"/">> \o join(Tail(stack))

RECURSIVE pushSegments(_, _, _)
pushSegments(stack, segments, i) ==
    IF i > Len(segments) THEN stack
    ELSE LET segment == segments[i]
         IN IF segment = ".."
            THEN pushSegments(IF stack = <<>> THEN stack ELSE Front(stack), segments, i + 1)
            ELSE IF segment # "."
            THEN pushSegments(Append(stack, segment), segments, i + 1)
            ELSE pushSegments(stack, segments, i + 1)

resolvePath(relative, base, append) ==
    IF relative # <<>> /\ relative[1] = "/" THEN relative
    ELSE IF relative # <<>> /\ relative[1] \in {"?", "#"} THEN base \o relative
    ELSE LET stack == split(base)
             popped == IF ~append \/ Last(stack) = "" THEN Front(stack) ELSE stack
             walked == pushSegments(popped, split(relative), 1)
             rooted == IF walked = <<>> \/ walked[1] # "" THEN <<"">> \o walked ELSE walked
         IN join(rooted)

IndexOf(s, tok) ==
    IF \E i \in 1..Len(s) : s[i] = tok
    THEN CHOOSE i \in 1..Len(s) : s[i] = tok /\ \A j \in 1..(i - 1) : s[j] # tok
    ELSE 0

parsePath(path) ==
    LET hashIndex == IndexOf(path, "#")
        hash == IF hashIndex > 0 THEN SubSeq(path, hashIndex, Len(path)) ELSE <<>>
        p1 == IF hashIndex > 0 THEN SubSeq(path, 1, hashIndex - 1) ELSE path
        queryIndex == IndexOf(p1, "?")
        query == IF queryIndex > 0 THEN SubSeq(p1, queryIndex + 1, Len(p1)) ELSE <<>>
        p2 == IF queryIndex > 0 THEN SubSeq(p1, 1, queryIndex - 1) ELSE p1
    IN [path |-> p2, query |-> query, hash |-> hash]

----------------------------------------------------------------------------
(* util/query.js, over the query strings the model uses *)

QueryStrings == { <<"q=1">>, <<"q=2">> }

parseQuery(query) ==
    IF query = <<"q=1">> THEN ("q" :> <<"1">>)
    ELSE IF query = <<"q=2">> THEN ("q" :> <<"2">>)
    ELSE EmptyMap

resolveQuery(query, extraQuery) == extraQuery @@ parseQuery(query)

stringifyQuery(obj) ==
    IF \E s \in QueryStrings : parseQuery(s) = obj
    THEN <<"?">> \o (CHOOSE s \in QueryStrings : parseQuery(s) = obj)
    ELSE <<>>

----------------------------------------------------------------------------
(* Locations and routes *)

\* A Location; name "" and path <<>> are absent (or empty), hasParams says
\* whether a params object is present
Loc(name, path, params, hasParams) ==
    [normalized |-> FALSE, name |-> name, path |-> path, params |-> params,
     hasParams |-> hasParams, query |-> EmptyMap, hash |-> <<>>,
     append |-> FALSE, replace |-> FALSE]

\* a raw location given as a string
Str(path) == Loc("", path, EmptyMap, FALSE)

Named(name, params) == Loc(name, <<>>, params, TRUE)

NoLocation == [null |-> TRUE]

NoRoute == [null |-> TRUE]

getFullPath(location) ==
    (IF location.path # <<>> THEN location.path ELSE <<"/">>)
        \o stringifyQuery(location.query) \o location.hash

RECURSIVE formatMatch(_, _)
formatMatch(recs, record) ==
    IF record = 0 THEN <<>>
    ELSE Append(formatMatch(recs, recs[record].parent), record)

\* util/route.js; record 0 is no record
createRoute(recs, record, location, redirectedFrom) ==
    [name |-> IF location.name # "" THEN location.name
              ELSE IF record # 0 THEN recs[record].name ELSE "",
     path |-> IF location.path # <<>> THEN location.path ELSE <<"/">>,
     hash |-> location.hash,
     query |-> location.query,
     params |-> IF location.hasParams THEN location.params ELSE EmptyMap,
     fullPath |-> getFullPath(location),
     matched |-> formatMatch(recs, record),
     redirectedFrom |-> IF redirectedFrom # NoLocation
                        THEN getFullPath(redirectedFrom) ELSE Undefined]

\* mutant: the params of the current route win over the raw ones
relativeParamsCurrentWins(currentParams, rawParams) == currentParams @@ rawParams

\* extend(extend({}, current.params), next.params)
relativeParams(currentParams, rawParams) == rawParams @@ currentParams

\* util/location.js
normalizeLocation(raw, currentRoute, append, recs) ==
    IF raw.normalized THEN raw
    ELSE IF raw.name # "" THEN raw
    ELSE IF raw.path = <<>> /\ raw.hasParams /\ currentRoute # NoRoute
    THEN LET params == relativeParams(currentRoute.params, raw.params)
             next == [raw EXCEPT !.normalized = TRUE]
         IN IF currentRoute.name # ""
            THEN [next EXCEPT !.name = currentRoute.name, !.params = params]
            ELSE IF Len(currentRoute.matched) > 0
            THEN [next EXCEPT !.path = fillParams(recs[Last(currentRoute.matched)].path, params)]
            ELSE next
    ELSE LET parsedPath == parsePath(raw.path)
             basePath == IF currentRoute # NoRoute /\ currentRoute.path # <<>>
                         THEN currentRoute.path ELSE <<"/">>
             path == IF parsedPath.path # <<>>
                     THEN resolvePath(parsedPath.path, basePath, append \/ raw.append)
                     ELSE basePath
             query == resolveQuery(parsedPath.query, raw.query)
             hash0 == IF raw.hash # <<>> THEN raw.hash ELSE parsedPath.hash
             hash == IF hash0 # <<>> /\ hash0[1] # "#" THEN <<"#">> \o hash0 ELSE hash0
         IN [normalized |-> TRUE, name |-> "", path |-> path, params |-> EmptyMap,
             hasParams |-> FALSE, query |-> query, hash |-> hash,
             append |-> FALSE, replace |-> FALSE]
----------------------------------------------------------------------------
(* Matcher: create-matcher.js.  A call returns a Route or throws; depth is  *)
(* the number of nested match calls the call stack still has room for.      *)

Returned(route) == [thrown |-> FALSE, error |-> "", route |-> route]

Thrown(error) == [thrown |-> TRUE, error |-> error, route |-> NoRoute]

resolveRecordPath(path, record, recs) ==
    resolvePath(path,
                IF recs[record].parent # 0 THEN recs[recs[record].parent].path ELSE <<"/">>,
                TRUE)

\* mutant: the names of all captures, the optional ones too
paramNamesAll(record, recs) ==
    LET keys == compileRouteRegex(recs[record].path)
    IN { keys[i].name : i \in 1..Len(keys) }

\* the required (non-optional) capture names of a record
paramNames(record, recs) ==
    LET keys == compileRouteRegex(recs[record].path)
    IN { keys[i].name : i \in { j \in 1..Len(keys) : ~keys[j].optional } }

\* for (i = 0; i < pathList.length; i++) if (matchRoute(...)) return ...: the
\* position of the first entry whose pattern matches, 0 when none does
firstMatch(t, path) ==
    LET hits == { i \in 1..Len(t.pathList) :
                    regexExec(t.records[t.pathMap[t.pathList[i]]].path, path, <<>>).ok }
    IN IF hits = {} THEN 0 ELSE CHOOSE i \in hits : \A j \in hits : i <= j

\* F applied to the value of x, which is computed once
With(x, F(_)) == CHOOSE result \in { F(value) : value \in {x} } : TRUE

RECURSIVE match(_, _, _, _, _, _)
RECURSIVE matchLocation(_, _, _, _, _, _)
RECURSIVE redirect(_, _, _, _, _)
RECURSIVE alias(_, _, _, _, _, _)
RECURSIVE aliased(_, _, _, _, _)
RECURSIVE _createRoute(_, _, _, _, _, _)

\* mutant: every hop of a redirect chain starts from its own location
redirectArgumentForgetful(location, redirectedFrom) == location

\* the location handed to redirect(): redirectedFrom || location
redirectArgument(location, redirectedFrom) ==
    IF redirectedFrom # NoLocation THEN redirectedFrom ELSE location

_createRoute(t, record, location, redirectedFrom, prod, depth) ==
    IF record # 0 /\ t.records[record].redirect.kind # "none"
    THEN redirect(t, record, redirectArgument(location, redirectedFrom), prod, depth)
    ELSE IF record # 0 /\ t.records[record].matchAs # <<>>
    THEN alias(t, record, location, t.records[record].matchAs, prod, depth)
    ELSE Returned(createRoute(t.records, record, location, redirectedFrom))

\* the branch match() takes on the normalized location: the record it picks
\* (0 is none) and the location object after the writes of the branch
locateByName(t, location, currentRoute) ==
    IF location.name \notin DOMAIN t.nameMap
    THEN [record |-> 0, location |-> location]
    ELSE LET record == t.nameMap[location.name]
             names == paramNames(record, t.records)
             given == IF location.hasParams THEN location.params ELSE EmptyMap
             inherited ==
                 IF currentRoute # NoRoute
                 THEN [k \in (DOMAIN currentRoute.params \cap names) \ DOMAIN given
                          |-> currentRoute.params[k]]
                 ELSE EmptyMap
             params == given @@ inherited
         IN [record |-> record,
             location |-> [location EXCEPT !.params = params, !.hasParams = TRUE,
                                           !.path = fillParams(t.records[record].path, params)]]

\* mutant: the params of the location are kept and the captures added to them
locateByPathKeepsParams(t, location) ==
    LET i == firstMatch(t, location.path)
        given == IF location.hasParams THEN location.params ELSE EmptyMap
    IN IF i # 0
       THEN LET record == t.pathMap[t.pathList[i]]
                m == matchRoute(t.records[record].path, location.path, given)
            IN [record |-> record,
                location |-> [location EXCEPT !.params = m.params, !.hasParams = TRUE]]
       ELSE [record |-> 0,
             location |-> [location EXCEPT !.params = given, !.hasParams = TRUE]]

\* location.params = {}; for (...) if (matchRoute(record.regex, location.path, location.params)) ...
locateByPath(t, location) ==
    LET i == firstMatch(t, location.path)
    IN IF i # 0
       THEN LET record == t.pathMap[t.pathList[i]]
                m == matchRoute(t.records[record].path, location.path, EmptyMap)
            IN [record |-> record,
                location |-> [location EXCEPT !.params = m.params, !.hasParams = TRUE]]
       ELSE [record |-> 0,
             location |-> [location EXCEPT !.params = EmptyMap, !.hasParams = TRUE]]

\* mutant: a location with a path is matched by its path, named or not
locatePathFirst(t, location, currentRoute) ==
    IF location.path # <<>> THEN locateByPath(t, location)
    ELSE IF location.name # "" THEN locateByName(t, location, currentRoute)
    ELSE [record |-> 0, location |-> location]

\* if (name) { ... } else if (location.path) { ... }
locate(t, location, currentRoute) ==
    IF location.name # "" THEN locateByName(t, location, currentRoute)
    ELSE IF location.path # <<>> THEN locateByPath(t, location)
    ELSE [record |-> 0, location |-> location]

\* match() once the raw location is normalized
matchLocation(t, location, currentRoute, redirectedFrom, prod, depth) ==
    With(locate(t, location, currentRoute), LAMBDA found :
        _createRoute(t, found.record, found.location,
                     IF found.record = 0 THEN NoLocation ELSE redirectedFrom,
                     prod, depth))

match(t, raw, currentRoute, redirectedFrom, prod, depth) ==
    IF depth = 0 THEN Thrown("RangeError")
    ELSE matchLocation(t, normalizeLocation(raw, currentRoute, FALSE, t.records),
                       currentRoute, redirectedFrom, prod, depth)

redirect(t, record, location, prod, depth) ==
    LET re == t.records[record].redirect
        params == IF location.hasParams THEN location.params ELSE EmptyMap
    IN IF re.kind = "name"
       THEN IF ~prod /\ re.name \notin DOMAIN t.nameMap
            THEN Thrown("assert")
            ELSE match(t, [normalized |-> TRUE, name |-> re.name, path |-> <<>>,
                           params |-> params, hasParams |-> location.hasParams,
                           query |-> location.query, hash |-> location.hash,
                           append |-> FALSE, replace |-> FALSE],
                       NoRoute, location, prod, depth - 1)
       ELSE IF re.kind = "path" /\ re.path # <<>>
       THEN LET rawPath == resolveRecordPath(re.path, record, t.records)
                resolvedPath == fillParams(rawPath, params)
            IN match(t, [normalized |-> TRUE, name |-> "", path |-> resolvedPath,
                         params |-> EmptyMap, hasParams |-> FALSE,
                         query |-> location.query, hash |-> location.hash,
                         append |-> FALSE, replace |-> FALSE],
                     NoRoute, location, prod, depth - 1)
       ELSE _createRoute(t, 0, location, NoLocation, prod, depth)

\* the record alias() builds the final route from: the deepest record of the
\* canonical match
\* mutant: the root of the canonical chain instead of its deepest record
aliasedRecordRoot(record, matched) == IF matched = <<>> THEN 0 ELSE matched[1]

aliasedRecordOf(record, matched) == IF matched = <<>> THEN 0 ELSE Last(matched)

\* alias(): const aliasedMatch = match({ _normalized: true, path: aliasedPath })
aliased(t, location, matchAs, prod, depth) ==
    LET aliasedPath == fillParams(matchAs, IF location.hasParams THEN location.params
                                           ELSE EmptyMap)
    IN match(t, [normalized |-> TRUE, name |-> "", path |-> aliasedPath,
                 params |-> EmptyMap, hasParams |-> FALSE,
                 query |-> EmptyMap, hash |-> <<>>,
                 append |-> FALSE, replace |-> FALSE],
             NoRoute, NoLocation, prod, depth - 1)

alias(t, record, location, matchAs, prod, depth) ==
    LET aliasedMatch == aliased(t, location, matchAs, prod, depth)
    IN IF aliasedMatch.thrown THEN aliasedMatch
       ELSE LET matched == aliasedMatch.route.matched
                aliasedRecord == aliasedRecordOf(record, matched)
            IN _createRoute(t, aliasedRecord,
                            [location EXCEPT !.params = aliasedMatch.route.params,
                                             !.hasParams = TRUE],
                            NoLocation, prod, depth)

----------------------------------------------------------------------------
(* Route configurations the table is built from *)

Leaf(path, name) == Config(path, name, <<>>, <<>>, NoRedirect)

\* routes given to the constructor
InitConfigs ==
    { Leaf(<<"*">>, "nf"),
      Config(S("a"), "a", <<Leaf(<<"c">>, "ac")>>, <<S("b")>>, NoRedirect),
      Leaf(S("b") \o <<"/">>, "b"),
      Config(S("p"), "a", <<Leaf(S("p"), "pp"), Leaf(<<"*">>, "px")>>, <<>>, NoRedirect) }

\* routes given to addRoutes
AddConfigs ==
    { Leaf(<<"*">>, "late"),
      Config(S("q"), "b", <<Leaf(<<>>, "q")>>, <<S("q"), S("a") \o <<"/">>>>, NoRedirect) }

RouteLists(configs, n) ==
    UNION { [1..k -> configs] : k \in 1..n }

TableOf(t) ==
    /\ records = t.records
    /\ pathList = t.pathList
    /\ pathMap = t.pathMap
    /\ nameMap = t.nameMap
    /\ regLog = t.regLog
    /\ nameLog = t.nameLog

Table == [records |-> records, pathList |-> pathList, pathMap |-> pathMap,
          nameMap |-> nameMap, regLog |-> regLog,
          nameLog |-> nameLog]

NoResult == [thrown |-> FALSE, error |-> "none", route |-> NoRoute]

\* util/route.js: START = createRoute(null, { path: '/' })
START == createRoute(<<>>, 0, Str(<<"/">>), NoLocation)

NoCall == [append |-> FALSE, mode |-> "history"]

ResolveIdle ==
    /\ rconf = NoCall
    /\ resolved = <<>>

NoQueue == [called |-> FALSE]

NoPath == [called |-> FALSE]

\* resolvePath is not called on its own
PathIdle ==
    /\ pathCall = [relative |-> <<>>, base |-> <<"/">>, append |-> FALSE]
    /\ pathResolved = NoPath

\* resolveQueue is not called
QueueIdle ==
    /\ qcall = [current |-> <<>>, next |-> <<>>]
    /\ queued = NoQueue

MatchIdle ==
    /\ mraw = NoLocation
    /\ mcur = NoRoute
    /\ mres = NoResult
    /\ ResolveIdle
    /\ QueueIdle
    /\ PathIdle

----------------------------------------------------------------------------
(* The transition engine: history/base.js, history/html5.js, index.js.     *)
(* The Route object a transitionTo call gets from the matcher has the      *)
(* number of that call as its identity.  The operators below transform a   *)
(* record h holding the fields of the History object and the router,       *)
(* the closures of the calls in flight, and the events of the handler      *)
(* that is running.                                                        *)

Ev(type, attempt, detail) == [type |-> type, attempt |-> attempt, detail |-> detail]

\* util/errors.js: createNavigation<Type>Error(from, to)
Failure(type) == [failure |-> TRUE, type |-> type]

\* an Error that is not a NavigationFailure
GuardError == [failure |-> FALSE, type |-> "error"]

isNavigationFailure(err) == err.failure

\* every value the model passes to abort is an Error object
isError(err) == err.type \in {"error", "duplicated", "cancelled", "redirected", "aborted"}

\* the closure of a confirmTransition call whose queue has stopped for good
Done == [live |-> FALSE]

Live(as) == { k \in 1..Len(as) : as[k].live }

\* values a guard passes to proceed
Nothing == [kind |-> "undefined"]

Bool(b) == [kind |-> "boolean", value |-> b]

AnError == [kind |-> "error"]

PathString(path) == [kind |-> "string", location |-> Str(path)]

LocationObject(path, replace) ==
    [kind |-> "object", location |-> [Str(path) EXCEPT !.replace = replace]]

\* null, a number, a function, and an object whose path and name are no strings
Null == [kind |-> "null"]

ANumber == [kind |-> "number"]

AFunction == [kind |-> "function"]

PlainObject == [kind |-> "object", location |-> NoLocation]

\* typeof to === 'string' || (typeof to === 'object' && (typeof to.path === 'string' || ...))
IsRedirect(to) == to.kind = "string" \/ (to.kind = "object" /\ to.location # NoLocation)

\* a queue entry that is undefined
NoGuard == [cat |-> "undefined", key |-> 0]

Guard(cat, key) == [cat |-> cat, key |-> key]

\* the in-component guards a component defines: def.options[key]
componentOptions(component) ==
    IF component \in {"a", "ab", "abe"}
    THEN {"beforeRouteLeave", "beforeRouteUpdate", "beforeRouteEnter"}
    ELSE IF component = "ad" THEN {"beforeRouteEnter", "beforeRouteLeave"}
    ELSE {}

\* the guards that call proceed() before they return: in this application
\* the in-component guards, beforeEnter, the component resolution step (no
\* component is loaded lazily) and the first beforeEach hook; the second
\* beforeEach hook and the beforeResolve hook call it later
callsProceedAtOnce(guard) ==
    guard \notin {Guard("before", 2), Guard("resolve", 1), Guard("before", 7)}

\* guards of other applications: a beforeEach hook that calls proceed() and
\* then throws, one that throws without calling proceed, and one that calls
\* proceed(false) and then proceed()
proceedsThenThrows(guard) == guard = Guard("before", 3)

throwsAtOnce(guard) == guard = Guard("before", 4)

vetoesThenProceeds(guard) == guard = Guard("before", 5)

\* a beforeEach hook that calls proceed later, and keeps calling it: the
\* callback it was handed stays callable after the call has ended
callsProceedAgain(guard) == guard = Guard("before", 7)

At(seq, i) == IF i \in 1..Len(seq) THEN seq[i] ELSE 0

Max(a, b) == IF a > b THEN a ELSE b

Min(a, b) == IF a < b THEN a ELSE b

Reverse(seq) == [i \in 1..Len(seq) |-> seq[Len(seq) + 1 - i]]

\* the Route equality rule: path, matched chain, query and params are equal
isSameRoute(a, b) ==
    /\ a.path = b.path
    /\ a.matched = b.matched
    /\ a.query = b.query
    /\ a.params = b.params

\* mutant: every record of both chains is taken to differ
resolveQueueFromRoot(cur, next) ==
    [updated |-> <<>>, activated |-> next, deactivated |-> cur]

\* for (i = 0; i < max; i++) { if (current[i] !== next[i]) { break } }, the
\* value of i after the loop entered with i; the arrays are indexed from 1
RECURSIVE firstDifference(_, _, _, _)
firstDifference(cur, next, i, max) ==
    IF i < max /\ At(cur, i + 1) = At(next, i + 1)
    THEN firstDifference(cur, next, i + 1, max)
    ELSE i

resolveQueue(cur, next) ==
    LET max == Max(Len(cur), Len(next))
        i == firstDifference(cur, next, 0, max)
    IN [updated |-> SubSeq(next, 1, Min(i, Len(next))),
        activated |-> SubSeq(next, i + 1, Len(next)),
        deactivated |-> SubSeq(cur, i + 1, Len(cur))]

\* flatMapComponents over the records, one component per record
extractGuards(rs, recs, name, cat, reverse) ==
    LET guards == [i \in 1..Len(recs) |->
                     IF name \in componentOptions(rs[recs[i]].component)
                     THEN Guard(cat, recs[i]) ELSE NoGuard]
    IN IF reverse THEN Reverse(guards) ELSE guards

extractLeaveGuards(rs, deactivated) ==
    extractGuards(rs, deactivated, "beforeRouteLeave", "leave", TRUE)

extractUpdateHooks(rs, updated) ==
    extractGuards(rs, updated, "beforeRouteUpdate", "update", FALSE)

extractEnterGuards(rs, activated) ==
    extractGuards(rs, activated, "beforeRouteEnter", "enter", FALSE)

\* activated.map(m => m.beforeEnter)
beforeEnterGuards(rs, activated) ==
    [i \in 1..Len(activated) |->
        IF rs[activated[i]].beforeEnter
        THEN Guard("beforeEnter", activated[i]) ELSE NoGuard]

hookGuards(cat, hooks) == [i \in 1..Len(hooks) |-> Guard(cat, hooks[i])]

\* mutant: the global before hooks ahead of the leave guards
guardQueueBeforeFirst(leave, before, update, enter, async) ==
    before \o leave \o update \o enter \o async

\* [].concat(extractLeaveGuards(deactivated), beforeHooks, extractUpdateHooks(updated),
\*           activated.map(m => m.beforeEnter), resolveAsyncComponents(activated))
guardQueue(leave, before, update, enter, async) ==
    leave \o before \o update \o enter \o async

\* HTML5History._startLocation: the location at construction
_startLocation == S("a") \o S("b") \o S("e")

\* the handler that ran last; current, pending and listeners are their values
\* before it
Step(op, k, hook, to, a) ==
    [op |-> op, attempt |-> k, guard |-> hook, value |-> to,
     stale |-> k # 0 /\ pending # k, current |-> current, committed |-> committed,
     ready |-> ready,
     from |-> a.from, onComplete |-> a.onComplete, onAbort |-> a.onAbort,
     tornDown |-> a.tornDown, listeners |-> listeners, events |-> <<>>]

NoAttempt ==
    [from |-> START, onComplete |-> "none", onAbort |-> "none", tornDown |-> FALSE]

\* the callbacks a caller gives to push or replace; "none" is one left out
Given(complete, onabort) ==
    [kind |-> "callbacks", onComplete |-> complete, onAbort |-> onabort]

NoStep == Step("none", 0, NoGuard, Nothing, NoAttempt)

\* the History object takes the fields of h
Becomes(h0, step) ==
    \E h \in {h0} :
        /\ records' = h.table.records
        /\ pathList' = h.table.pathList
        /\ pathMap' = h.table.pathMap
        /\ nameMap' = h.table.nameMap
        /\ regLog' = h.table.regLog
        /\ nameLog' = h.table.nameLog
        /\ calls' = h.calls
        /\ current' = h.current
        /\ currentId' = h.currentId
        /\ pending' = h.pending
        /\ ready' = h.ready
        /\ readyCbs' = h.readyCbs
        /\ readyErrorCbs' = h.readyErrorCbs
        /\ committed' = h.committed
        /\ listeners' = h.listeners
        /\ registered' = h.registered
        /\ url' = h.url
        /\ attempts' = h.attempts
        /\ budget' = h.budget
        /\ last' = [step EXCEPT !.events = h.events]
        /\ UNCHANGED <<production, matchVars, hookVars>>

\* history.listeners.length > 0
listening == listeners # <<>>

\* the engine of a router nothing navigates with
EngineIdle ==
    /\ app = FALSE
    /\ current = START
    /\ currentId = 0
    /\ pending = 0
    /\ ready = FALSE
    /\ readyCbs = <<>>
    /\ readyErrorCbs = <<>>
    /\ committed = FALSE
    /\ listeners = <<>>
    /\ registered = 0
    /\ url = _startLocation
    /\ beforeHooks = <<>>
    /\ resolveHooks = <<>>
    /\ afterHooks = <<>>
    /\ attempts = <<>>
    /\ budget = 0
    /\ last = NoStep

\* createMatcher(routes): const { pathList, pathMap, nameMap } = createRouteMap(routes)
InitBuild ==
    /\ production \in BOOLEAN
    /\ calls = 0
    /\ \E routes \in RouteLists(InitConfigs, MaxRoutes) :
          TableOf(createRouteMap(routes, EmptyTable, production))
    /\ MatchIdle
    /\ EngineIdle


----------------------------------------------------------------------------
(* The matcher on its own: one match call on a table built from configs *)

MatchConfigs ==
    { Config(S("a"), "", <<>>, <<>>, RedirectPath(S("b"))),
      Config(S("b"), "", <<>>, <<>>, RedirectPath(S("c"))),
      Config(S("b"), "", <<>>, <<>>, RedirectPath(S("a"))),
      Config(S("c"), "c", <<Leaf(<<"d">>, "cd")>>, <<S("b")>>, NoRedirect),
      Config(S("a"), "", <<>>, <<>>, RedirectName("u")),
      Config(S("a"), "", <<>>, <<>>, RedirectPath(S("o") \o S("1"))),
      Leaf(S("u") \o S(":id"), "u"),
      Config(S("o") \o S(":id"), "o", <<>>, <<>>, RedirectPath(S("u") \o S(":id"))) }

RawLocations ==
    { Str(S("a")), Str(S("b")), Str(S("c")), Str(S("b") \o S("d")),
      Str(S("o") \o S("1")), Str(S("a") \o <<"?", "q=1", "#", "h">>),
      Named("u", "id" :> <<"2">>), Named("o", EmptyMap), Str(S("zz")) }

InitMatch ==
    /\ production \in BOOLEAN
    /\ calls = 0
    /\ \E routes \in RouteLists(MatchConfigs, MaxMatchRoutes) :
          TableOf(createRouteMap(routes, EmptyTable, production))
    /\ mraw \in RawLocations
    /\ mcur \in {START, createRoute(<<>>, 0, [Str(S("u") \o S("7")) EXCEPT
                                                !.params = "id" :> <<"7">>, !.hasParams = TRUE],
                                    NoLocation)}
    /\ mres = NoResult
    /\ ResolveIdle
    /\ QueueIdle
    /\ PathIdle
    /\ EngineIdle

\* router.match(raw, current)
doMatch ==
    /\ mres = NoResult
    /\ mres' = match(Table, mraw, mcur, NoLocation, production, StackLimit)
    /\ UNCHANGED <<tableVars, mraw, mcur, rconf, resolved, qcall, queued, pathCall, pathResolved, engineVars>>

NextMatch == doMatch

SpecMatch == InitMatch /\ [][NextMatch]_vars

----------------------------------------------------------------------------
(* The matcher on locations with params: one match call on a fixed table, *)
(* from a current route that the same table produced                      *)

ParamRoutes ==
    << Leaf(S("user") \o S(":id"), "user"),
       Leaf(S("f") \o S(":id") \o S(":o?"), "f"),
       Leaf(S("n") \o S(":id"), ""),
       Config(S("t") \o S(":id"), "t", <<>>, <<S("k")>>, NoRedirect),
       Config(S("r"), "", <<>>, <<>>, RedirectPath(S("user") \o S(":id"))) >>

ParamSets ==
    { EmptyMap, "id" :> <<"2">>, "o" :> <<"5">>, ("id" :> <<"2">>) @@ ("z" :> <<"9">>) }

ParamLocations ==
    { Named(name, params) : name \in {"user", "f", "t"}, params \in ParamSets }
        \cup { Named("zz", EmptyMap), Loc("user", <<>>, EmptyMap, FALSE) }
        \cup { Loc("", <<>>, params, TRUE) : params \in ParamSets }
        \cup { Str(S("k")), Str(S("r")), Str(S("t") \o S("3")) }

\* the locations the application was at when it asked
CurrentLocations ==
    { Str(S("user") \o S("1")), Str(S("f") \o S("1") \o S("4")), Str(S("n") \o S("1")),
      Named("user", ("id" :> <<"1">>) @@ ("z" :> <<"8">>)) }

InitParams ==
    /\ production \in BOOLEAN
    /\ calls = 0
    /\ \E t \in { createRouteMap(ParamRoutes, EmptyTable, production) } :
          /\ TableOf(t)
          /\ mcur \in { NoRoute, START }
                \cup { match(t, at, NoRoute, NoLocation, production, StackLimit).route :
                         at \in CurrentLocations }
    /\ mraw \in ParamLocations
    /\ mres = NoResult
    /\ ResolveIdle
    /\ QueueIdle
    /\ PathIdle
    /\ EngineIdle

SpecParams == InitParams /\ [][NextMatch]_vars

----------------------------------------------------------------------------
(* The matcher on locations with a path: one match call on a fixed table *)

PathRoutes ==
    << Leaf(S("user") \o S(":id"), "user"),
       Leaf(S("f") \o S(":id") \o S(":o?"), "f"),
       Leaf(S("n") \o S(":id"), ""),
       Config(S("a"), "a", <<>>, <<S(":x")>>, NoRedirect),
       Config(S("r") \o S(":id"), "r", <<>>, <<>>, RedirectPath(S("user") \o S("7"))),
       Leaf(S(":x") \o S(":id"), "xid"),
       Leaf(<<"*">>, "nf") >>

PathParams == { EmptyMap, ("id" :> <<"2">>) @@ ("z" :> <<"9">>) }

PathLocations ==
    { Str(path) : path \in { S("user") \o S("1"), S("f") \o S("1"),
                               S("f") \o S("1") \o S("4"), S("a"), S("q"),
                               S("r") \o S("3"), S("z") \o S("y") \o S("w"), <<"e">> } }
        \cup { Loc(name, path, params, TRUE) :
                  name \in {"", "user", "a", "zz"},
                  path \in { S("user") \o S("1"), S("f") \o S("1") },
                  params \in PathParams }
        \cup { [Loc("", S("user") \o S("1"), params, TRUE) EXCEPT !.normalized = TRUE] :
                  params \in PathParams }
        \cup { Loc("", <<>>, params, TRUE) : params \in PathParams }

InitPaths ==
    /\ production \in BOOLEAN
    /\ calls = 0
    /\ \E t \in { createRouteMap(PathRoutes, EmptyTable, production) } :
          /\ TableOf(t)
          /\ mcur \in { NoRoute, START }
                \cup { match(t, at, NoRoute, NoLocation, production, StackLimit).route :
                         at \in { Str(S("n") \o S("1")), Str(S("user") \o S("1")) } }
    /\ mraw \in PathLocations
    /\ mres = NoResult
    /\ ResolveIdle
    /\ QueueIdle
    /\ PathIdle
    /\ EngineIdle

SpecPaths == InitPaths /\ [][NextMatch]_vars

----------------------------------------------------------------------------
(* router.resolve: index.js.  The same call made again and again on a     *)
(* fixed table; mraw is the caller's `to` object, which the matcher may   *)
(* write into when it is already normalized                               *)

MaxResolves == 2      \* resolve calls in a behaviour

\* the location object match() was given, after the call: the writes of the
\* branch taken and, for an alias record, location.params = aliasedMatch.params
writtenLocation(t, location, currentRoute, prod, depth) ==
    With(locate(t, location, currentRoute), LAMBDA found :
        IF /\ found.record # 0
           /\ t.records[found.record].redirect.kind = "none"
           /\ t.records[found.record].matchAs # <<>>
        THEN With(aliased(t, found.location, t.records[found.record].matchAs, prod, depth),
                  LAMBDA aliasedMatch :
                      IF aliasedMatch.thrown THEN found.location
                      ELSE [found.location EXCEPT !.params = aliasedMatch.route.params,
                                                  !.hasParams = TRUE])
        ELSE found.location)

\* createHref(base, fullPath, mode)
createHref(base, fullPath, mode) ==
    LET path == IF mode = "hash" THEN <<"#">> \o fullPath ELSE fullPath
    IN IF base # <<>> THEN cleanPath(base \o <<"/">> \o path) ELSE path

\* what resolve hands back, and the caller's `to` object after the call;
\* normalizeLocation returns `to` itself when it is normalized and a copy
\* otherwise, and match works on a copy of a copy that is not normalized
resolveOutcome(to, location, after, result, mode) ==
    [thrown |-> result.thrown,
     error |-> result.error,
     location |-> IF result.thrown THEN NoLocation
                  ELSE IF location.normalized THEN after ELSE location,
     route |-> result.route,
     href |-> IF result.thrown THEN <<>>
              ELSE createHref(<<>>,
                              IF result.route.redirectedFrom # Undefined
                              THEN result.route.redirectedFrom
                              ELSE result.route.fullPath, mode),
     to |-> IF to.normalized THEN after ELSE to]

\* VueRouter.resolve(to, current, append), with base ''
resolve(t, to, cur, append, mode, prod) ==
    With(normalizeLocation(to, cur, append, t.records), LAMBDA location :
        resolveOutcome(to, location,
                       writtenLocation(t, location, cur, prod, StackLimit),
                       match(t, location, cur, NoLocation, prod, StackLimit),
                       mode))

\* what a caller can hand to resolve: raw locations, and location objects an
\* earlier normalizeLocation marked as normalized
ResolveLocations ==
    ParamLocations \cup { [l EXCEPT !.normalized = TRUE] : l \in ParamLocations }

InitResolve ==
    /\ production \in BOOLEAN
    /\ calls = 0
    /\ \E t \in { createRouteMap(ParamRoutes, EmptyTable, production) } :
          /\ TableOf(t)
          /\ mcur \in { NoRoute }
                \cup { match(t, at, NoRoute, NoLocation, production, StackLimit).route :
                         at \in CurrentLocations }
    /\ mraw \in ResolveLocations
    /\ mres = NoResult
    /\ rconf \in [append : BOOLEAN, mode : {"history", "hash"}]
    /\ resolved = <<>>
    /\ QueueIdle
    /\ PathIdle
    /\ EngineIdle

\* router.resolve(to, current, append); current = current || this.history.current
doResolve ==
    /\ Len(resolved) < MaxResolves
    /\ \E outcome \in { resolve(Table, mraw, IF mcur # NoRoute THEN mcur ELSE current,
                                rconf.append, rconf.mode, production) } :
          /\ resolved' = Append(resolved, [outcome EXCEPT !.to = mraw])
          /\ mraw' = outcome.to
    /\ UNCHANGED <<tableVars, mcur, mres, rconf, qcall, queued, pathCall, pathResolved, engineVars>>

NextResolve == doResolve

SpecResolve == InitResolve /\ [][NextResolve]_vars

----------------------------------------------------------------------------
(* The engine as a state machine *)

\* the History object, the router's hooks and the closures in flight
Engine ==
    [table |-> Table, calls |-> calls,
     current |-> current, currentId |-> currentId, pending |-> pending,
     ready |-> ready, readyCbs |-> readyCbs, readyErrorCbs |-> readyErrorCbs,
     committed |-> committed, listeners |-> listeners,
     registered |-> registered, url |-> url,
     beforeHooks |-> beforeHooks, resolveHooks |-> resolveHooks,
     afterHooks |-> afterHooks, attempts |-> attempts, budget |-> budget,
     events |-> <<>>]

Emit(h, type, attempt, detail) ==
    [h EXCEPT !.events = Append(@, Ev(type, attempt, detail))]

\* mutant: the location is never written
ensureURLNever(h0, push) == h0

\* HTML5History.ensureURL(push), with base ''
ensureURL(h0, push) ==
    With(h0, LAMBDA h :
        IF h.url # h.current.fullPath
        THEN Emit([h EXCEPT !.url = cleanPath(h.current.fullPath)],
                  IF push THEN "pushState" ELSE "replaceState", 0,
                  cleanPath(h.current.fullPath))
        ELSE h)

\* mutant: the listener is registered by every call
setupListenersAgain(h0) ==
    With(h0, LAMBDA h : [h EXCEPT !.registered = @ + 1,
                                  !.listeners = Append(@, "popstate")])

\* HTML5History.setupListeners(), without scrollBehavior:
\* if (this.listeners.length > 0) return; window.addEventListener('popstate', ...);
\* this.listeners.push(() => { window.removeEventListener('popstate', ...) })
setupListeners(h0) ==
    With(h0, LAMBDA h : IF Len(h.listeners) > 0 THEN h
                        ELSE [h EXCEPT !.registered = @ + 1,
                                       !.listeners = Append(@, "popstate")])

\* a callback handed to transitionTo, called with a route or an error: the
\* caller's, a promise's resolve or reject, init's setupListeners, or none
callback(h, cb, type, k, detail) ==
    IF cb = "caller" THEN Emit(h, type, k, detail)
    ELSE IF cb \in {"resolve", "reject"} THEN Emit(h, cb, k, detail)
    ELSE IF cb = "setupListeners" THEN setupListeners(h)
    ELSE h

\* cbs.forEach(cb => { cb(arg) })
forEachCb(h, type, k, cbs, arg) ==
    [h EXCEPT !.events = @ \o [i \in 1..Len(cbs) |-> Ev(type, k, [cb |-> cbs[i], arg |-> arg])]]

\* mutant: an initial redirection marks the history as ready too
onAbortMarksReady(h, a, k, err) ==
    With(callback(h, a.onAbort, "onAbort", k, err.type), LAMBDA told :
        IF ~told.ready
        THEN forEachCb(Emit([told EXCEPT !.ready = TRUE], "readyErrorCbs", k, err.type),
                       "readyErrorCb", k, told.readyErrorCbs, err.type)
        ELSE told)

\* transitionTo's err => { ... }: the onAbort given to confirmTransition
onAbort(h, a, k, err) ==
    With(callback(h, a.onAbort, "onAbort", k, err.type), LAMBDA told :
        IF ~told.ready /\ (~(err.failure /\ err.type = "redirected") \/ a.fromId # 0)
        THEN forEachCb(Emit([told EXCEPT !.ready = TRUE], "readyErrorCbs", k, err.type),
                       "readyErrorCb", k, told.readyErrorCbs, err.type)
        ELSE told)

\* mutant: the error observers are told of every failure
abortTellsObservers(h0, k, err) ==
    With(h0, LAMBDA h :
        LET observed == Emit(h, "errorCbs", k, err.type)
            aborted == Emit([observed EXCEPT !.attempts[k] = Done], "abort", k, err.type)
        IN onAbort(aborted, h.attempts[k], k, err))

\* confirmTransition's abort(err); the queue of the call never advances again
abort(h0, k, err) ==
    With(h0, LAMBDA h :
        LET observed == IF ~isNavigationFailure(err) /\ isError(err)
                        THEN Emit(h, "errorCbs", k, err.type) ELSE h
            aborted == Emit([observed EXCEPT !.attempts[k] = Done], "abort", k, err.type)
        IN onAbort(aborted, h.attempts[k], k, err))

\* History.updateRoute(route)
updateRoute(h0, k) ==
    With(h0, LAMBDA h :
        Emit([h EXCEPT !.current = h.attempts[k].route, !.currentId = k,
                       !.committed = TRUE],
             "updateRoute", k, h.attempts[k].byStale))

\* the completion callback push, replace and init give to transitionTo
completion(h, a, k) ==
    LET written == cleanPath(a.route.fullPath)
        stated == IF a.mode = "push"
                  THEN Emit([h EXCEPT !.url = written], "pushState", k, written)
                  ELSE IF a.mode = "replace"
                  THEN Emit([h EXCEPT !.url = written], "replaceState", k, written)
                  ELSE h
    IN callback(stated, a.onComplete, "onComplete", k, a.route.fullPath)

RECURSIVE afterEach(_, _, _, _)
afterEach(h0, a, k, i) ==
    With(h0, LAMBDA h :
        IF i > Len(h.afterHooks) THEN h
        ELSE afterEach(Emit(h, "after", k,
                            [hook |-> h.afterHooks[i], to |-> a.route.fullPath,
                             from |-> a.from.fullPath, current |-> h.current.fullPath]),
                       a, k, i + 1))

\* mutant: the after hooks run first
onCompleteHooksFirst(h0, k) ==
    With(h0, LAMBDA h :
        LET a == h.attempts[k]
        IN With(afterEach(h, a, k, 1), LAMBDA hooked :
               LET updated == updateRoute(hooked, k)
                   completed == completion(updated, a, k)
                   synced == ensureURL(completed, FALSE)
                   flushed == IF ~synced.ready
                              THEN forEachCb(Emit([synced EXCEPT !.ready = TRUE],
                                                  "readyCbs", k, a.route.fullPath),
                                             "readyCb", k, synced.readyCbs,
                                             a.route.fullPath)
                              ELSE synced
               IN [flushed EXCEPT !.attempts[k] = Done]))

\* mutant: the ready callbacks are called at every commit
onCompleteFlushesAlways(h0, k) ==
    With(h0, LAMBDA h :
        LET a == h.attempts[k]
            updated == updateRoute(h, k)
            completed == completion(updated, a, k)
            synced == ensureURL(completed, FALSE)
        IN With(afterEach(synced, a, k, 1), LAMBDA hooked :
               LET flushed == forEachCb(Emit([hooked EXCEPT !.ready = TRUE],
                                             "readyCbs", k, a.route.fullPath),
                                        "readyCb", k, hooked.readyCbs, a.route.fullPath)
               IN [flushed EXCEPT !.attempts[k] = Done]))

\* transitionTo's () => { ... }: the onComplete given to confirmTransition
onComplete(h0, k) ==
    With(h0, LAMBDA h :
        LET a == h.attempts[k]
            updated == updateRoute(h, k)
            completed == completion(updated, a, k)
            synced == ensureURL(completed, FALSE)
        IN With(afterEach(synced, a, k, 1), LAMBDA hooked :
               LET flushed == IF ~hooked.ready
                              THEN forEachCb(Emit([hooked EXCEPT !.ready = TRUE],
                                                  "readyCbs", k, a.route.fullPath),
                                             "readyCb", k, hooked.readyCbs,
                                             a.route.fullPath)
                              ELSE hooked
               IN [flushed EXCEPT !.attempts[k] = Done]))

\* mutant: a call goes on whatever is pending
supersededNever(h, k) == FALSE

\* if (this.pending !== route)
superseded(h, k) == h.pending # k

\* mutant: pending is left as it is when the queues are through
clearPendingNever(h) == h

\* this.pending = null, ahead of onComplete(route)
clearPending(h) == [h EXCEPT !.pending = 0]

RECURSIVE step(_, _, _)
RECURSIVE iterator(_, _, _)

\* mutant: false is passed on like any other value
proceedFalsePassedOn(h, k) == step(h, k, h.attempts[k].index + 1)

\* mutant: false is ignored
proceedFalseIgnored(h, k) == h

\* next(false): this.ensureURL(true); abort(createNavigationAbortedError(current, route))
proceedFalse(h, k) == abort(ensureURL(h, TRUE), k, Failure("aborted"))

\* abort(err) called from the frame of a hook of call k that has called
\* proceed already: a is the closure the hook was invoked in, `after` the
\* history once the queue that call of proceed advanced has run
abortAfter(after, a, k, err) ==
    With(abort([after EXCEPT !.attempts[k] = a], k, err), LAMBDA aborted :
        IF after.attempts[k].live
        THEN [aborted EXCEPT !.attempts[k] = after.attempts[k]]
        ELSE aborted)

\* runQueue's step(index), index counted from 1, on the queue call k is running
step(h0, k, index) ==
    With(h0, LAMBDA h :
        LET a == h.attempts[k]
        IN IF index > Len(a.queue)
           THEN IF ~a.second
                THEN \* the first queue is done: enterGuards.concat(resolveHooks)
                     step([h EXCEPT !.attempts[k].queue =
                                        extractEnterGuards(h.table.records, a.activated)
                                            \o hookGuards("resolve", h.resolveHooks),
                                    !.attempts[k].second = TRUE],
                          k, 1)
                ELSE IF superseded(h, k)
                THEN abort(h, k, Failure("cancelled"))
                ELSE onComplete(clearPending(h), k)
           ELSE IF a.queue[index] = NoGuard THEN step(h, k, index + 1)
           ELSE iterator(h, k, index))

\* mutant: the queue advances as soon as a hook is invoked
iteratorEager(h0, k, index) ==
    With(h0, LAMBDA h :
        IF h.pending # k
        THEN abort(h, k, Failure("cancelled"))
        ELSE step(Emit([h EXCEPT !.attempts[k].index = index,
                                 !.attempts[k].invoked =
                                     Append(@, h.attempts[k].queue[index])],
                       "guard", k, h.attempts[k].queue[index]),
                  k, index + 1))

\* confirmTransition's iterator(hook, next) up to the return of the hook
iterator(h0, k, index) ==
    With(h0, LAMBDA h :
        IF superseded(h, k)
        THEN abort(h, k, Failure("cancelled"))
        ELSE LET hook == h.attempts[k].queue[index]
                 invoked == Emit([h EXCEPT !.attempts[k].index = index,
                                           !.attempts[k].invoked = Append(@, hook)],
                                 "guard", k, hook)
             IN IF throwsAtOnce(hook)
                THEN \* catch (e) { abort(e) }
                     abort(invoked, k, GuardError)
                ELSE IF proceedsThenThrows(hook)
                THEN With(step(invoked, k, index + 1), LAMBDA after :
                         abortAfter(after, invoked.attempts[k], k, GuardError))
                ELSE IF vetoesThenProceeds(hook)
                THEN With(proceedFalse(invoked, k), LAMBDA vetoed :
                         step([vetoed EXCEPT !.attempts[k] = invoked.attempts[k]],
                              k, index + 1))
                ELSE IF callsProceedAtOnce(hook) THEN step(invoked, k, index + 1)
                ELSE invoked)

Duplicated(route, cur) ==
    /\ isSameRoute(route, cur)
    /\ Len(route.matched) = Len(cur.matched)
    /\ At(route.matched, Len(route.matched)) = At(cur.matched, Len(cur.matched))

\* History.confirmTransition(route, onComplete, onAbort) for the call k
confirmTransition(h0, k) ==
    With(h0, LAMBDA h :
        LET route == h.attempts[k].route
            marked == [h EXCEPT !.pending = k]
        IN IF Duplicated(route, h.current)
           THEN abort(ensureURL(marked, FALSE), k, Failure("duplicated"))
           ELSE With(resolveQueue(h.current.matched, route.matched), LAMBDA q :
                    LET queue == guardQueue(extractLeaveGuards(h.table.records, q.deactivated),
                                            hookGuards("before", h.beforeHooks),
                                            extractUpdateHooks(h.table.records, q.updated),
                                            beforeEnterGuards(h.table.records, q.activated),
                                            <<Guard("async", 0)>>)
                    IN step([marked EXCEPT !.attempts[k].queue = queue,
                                           !.attempts[k].activated = q.activated],
                            k, 1)))

\* mutant: the exception is re-thrown without telling the error observers
matchThrewUnobserved(h, e) == Emit(h, "throw", 0, e)

\* transitionTo's catch (e): this.errorCbs.forEach(cb => { cb(e) }); throw e
matchThrew(h, e) == Emit(Emit(h, "errorCbs", 0, e), "throw", 0, e)

\* History.transitionTo(location, onComplete, onAbort); mode tells what the
\* completion writes, by is the call whose guard asked for this one, tornDown
\* (history) tells whether teardown ran while that call was in flight
transitionTo(h0, location, mode, complete, onabort, by, byStale, tornDown) ==
    With(h0, LAMBDA h :
        With(match(h.table, location, h.current, NoLocation, production, StackLimit),
             LAMBDA result :
        LET k == Len(h.attempts) + 1
            a == [live |-> TRUE, route |-> result.route, from |-> h.current,
                  fromId |-> h.currentId, mode |-> mode, onComplete |-> complete,
                  onAbort |-> onabort, queue |-> <<>>, second |-> FALSE, index |-> 0,
                  activated |-> <<>>, invoked |-> <<>>, by |-> by, byStale |-> byStale,
                  tornDown |-> tornDown, commits |-> 0]
        IN IF result.thrown
           THEN matchThrew(h, result.error)
           ELSE confirmTransition(
                    Emit([h EXCEPT !.attempts = Append(@, a), !.budget = @ - 1],
                         "transitionTo", k,
                         [route |-> result.route, by |-> by, onComplete |-> complete,
                          onAbort |-> onabort, mode |-> mode]),
                    k)))

\* mutant: a redirect always goes through push
proceedAlwaysPushes(h0, k, to) ==
    With(h0, LAMBDA h :
        IF to = Bool(FALSE) THEN proceedFalse(h, k)
        ELSE IF to.kind = "error" THEN abort(ensureURL(h, TRUE), k, GuardError)
        ELSE IF IsRedirect(to)
        THEN transitionTo(abort(h, k, Failure("redirected")), to.location, "push",
                          "none", "none", k, h.pending # k, h.attempts[k].tornDown)
        ELSE step(h, k, h.attempts[k].index + 1))

\* typeof null === 'object', so typeof to.path is evaluated with to = null and
\* throws a TypeError out of the callback, to the hook that called it
proceedNull(h, k) == Emit(h, "throw", k, "TypeError")

\* the callback the iterator hands to the hook of call k, called with `to`
proceedOnce(h0, k, to) ==
    With(h0, LAMBDA h :
        IF to = Bool(FALSE) THEN proceedFalse(h, k)
        ELSE IF to.kind = "error" THEN abort(ensureURL(h, TRUE), k, GuardError)
        ELSE IF to = Null THEN proceedNull(h, k)
        ELSE IF IsRedirect(to)
        THEN \* abort(createNavigationRedirectedError(current, route)), then
             \* this.replace(to) or this.push(to)
             transitionTo(abort(h, k, Failure("redirected")), to.location,
                          IF to.kind = "object" /\ to.location.replace
                          THEN "replace" ELSE "push",
                          "none", "none", k, h.pending # k, h.attempts[k].tornDown)
        ELSE step(h, k, h.attempts[k].index + 1))

\* the times call k has set current among the events from number n on
CommitsFrom(events, n, k) ==
    Cardinality({ i \in n..Len(events) :
                    events[i].type = "updateRoute" /\ events[i].attempt = k })

\* the hook of call k calls the callback it was handed with `to`; a hook that
\* keeps calling it has the same closure to call again when the call has
\* ended, commits (history) counting the times the call has set current
proceed(h0, k, to) ==
    With(h0, LAMBDA h :
        With(proceedOnce(h, k, to), LAMBDA called :
            IF callsProceedAgain(h.attempts[k].queue[h.attempts[k].index])
                   /\ ~called.attempts[k].live
            THEN [called EXCEPT !.attempts[k] =
                     [h.attempts[k] EXCEPT !.commits =
                         @ + CommitsFrom(called.events, Len(h.events) + 1, k)]]
            ELSE called))

\* the handler ended in an exception
threw(h) == h.events # <<>> /\ h.events[Len(h.events)].type = "throw"

\* new Promise(executor): an exception in the executor rejects the promise
executor(h) ==
    IF threw(h)
    THEN [h EXCEPT !.events[Len(h.events)] = Ev("reject", 0, h.events[Len(h.events)].detail)]
    ELSE h

\* mutant: a promise only when both callbacks are left out is replaced by
\* a promise when either is
pushOrReplaceEither(h, location, mode, complete, onabort) ==
    IF complete = "none" \/ onabort = "none"
    THEN Emit(executor(transitionTo(h, location, mode, "resolve", "reject", 0, FALSE, FALSE)),
              "return", 0, "Promise")
    ELSE With(transitionTo(h, location, mode, complete, onabort, 0, FALSE, FALSE),
              LAMBDA called : IF threw(called) THEN called
                              ELSE Emit(called, "return", 0, "undefined"))

\* VueRouter.push and VueRouter.replace, over HTML5History.push and replace,
\* where Promise is defined
pushOrReplace(h, location, mode, complete, onabort) ==
    IF complete = "none" /\ onabort = "none"
    THEN Emit(executor(transitionTo(h, location, mode, "resolve", "reject", 0, FALSE, FALSE)),
              "return", 0, "Promise")
    ELSE With(transitionTo(h, location, mode, complete, onabort, 0, FALSE, FALSE),
              LAMBDA called : IF threw(called) THEN called
                              ELSE Emit(called, "return", 0, "undefined"))

\* History.onReady(cb, errorCb); cb is the number of the callback
onReadyCb(h, cb, errorCb) ==
    IF h.ready THEN Emit(h, "readyCb", 0, [cb |-> cb, arg |-> "undefined"])
    ELSE [h EXCEPT !.readyCbs = Append(@, cb),
                   !.readyErrorCbs = IF errorCb THEN Append(@, cb) ELSE @]

\* History.teardown(), with HTML5History's listeners
teardown(h) ==
    [h EXCEPT !.registered = @ - Len(h.listeners), !.listeners = <<>>,
              !.current = START, !.currentId = 0, !.pending = 0,
              !.attempts = [k \in DOMAIN @ |-> IF @[k].live
                                               THEN [@[k] EXCEPT !.tornDown = TRUE]
                                               ELSE @[k]]]

\* the application's routes: /a with children b (with child e) and d, /c, and
\* /x, which redirects to a name no route has
EngineRoutes ==
    << [Config(S("a"), "a",
               << Config(<<"b">>, "ab", <<Leaf(<<"e">>, "abe")>>, <<>>, NoRedirect),
                  [Leaf(<<"d">>, "ad") EXCEPT !.beforeEnter = TRUE] >>,
               <<>>, NoRedirect) EXCEPT !.beforeEnter = TRUE],
       Leaf(S("c"), "c"),
       Config(S("x"), "x", <<>>, <<>>, RedirectName("gone")) >>

\* the locations the application and the user navigate to
TargetPaths == { S("a") \o S("b") \o S("e"), S("a") \o S("d"), S("x") }

ProceedValues ==
    { Nothing, Bool(TRUE), Bool(FALSE), AnError, PathString(S("c")),
      LocationObject(S("c"), FALSE), LocationObject(S("a") \o S("d"), TRUE) }


\* new VueRouter({ mode: 'history', routes }) followed by the application's
\* beforeEach (twice), beforeResolve and afterEach
Init ==
    /\ production = FALSE
    /\ calls = 0
    /\ TableOf(createRouteMap(EngineRoutes, EmptyTable, production))
    /\ MatchIdle
    /\ app = FALSE
    /\ current = START
    /\ currentId = 0
    /\ pending = 0
    /\ ready = FALSE
    /\ readyCbs = <<>>
    /\ readyErrorCbs = <<>>
    /\ committed = FALSE
    /\ listeners = <<>>
    /\ registered = 0
    /\ url = _startLocation
    /\ beforeHooks = <<1, 2>>
    /\ resolveHooks = <<1>>
    /\ afterHooks = <<1>>
    /\ attempts = <<>>
    /\ budget = MaxNavigations
    /\ last = NoStep

\* router.init(app) for the first app:
\* history.transitionTo(history.getCurrentLocation(), setupListeners, setupListeners)
init ==
    /\ ~app
    /\ budget > 0
    /\ Cardinality(Live(attempts)) < MaxOverlap
    /\ app' = TRUE
    /\ Becomes(transitionTo(Engine, Str(url), "transitionTo", "setupListeners",
                            "setupListeners", 0, FALSE, FALSE),
               Step("init", 0, NoGuard, Nothing, NoAttempt))

\* router.push(location[, onComplete, onAbort]); "none" is a callback left out
push(location, complete, onabort) ==
    /\ budget > 0
    /\ Cardinality(Live(attempts)) < MaxOverlap
    /\ Becomes(pushOrReplace(Engine, location, "push", complete, onabort),
               Step("push", 0, NoGuard, Given(complete, onabort), NoAttempt))
    /\ UNCHANGED app

\* router.replace(location[, onComplete, onAbort])
replace(location, complete, onabort) ==
    /\ budget > 0
    /\ Cardinality(Live(attempts)) < MaxOverlap
    /\ Becomes(pushOrReplace(Engine, location, "replace", complete, onabort),
               Step("replace", 0, NoGuard, Given(complete, onabort), NoAttempt))
    /\ UNCHANGED app

\* setupListeners' handleRoutingEvent, with the window at `location`
routingEvent(h0, location) ==
    With(h0, LAMBDA h :
        IF h.currentId = 0 /\ location = _startLocation
        THEN h
        ELSE transitionTo(h, Str(location), "transitionTo", "none", "none",
                          0, FALSE, FALSE))

\* the window calls the n listeners registered for popstate, one after another
RECURSIVE dispatch(_, _, _)
dispatch(h, location, n) ==
    IF n = 0 THEN h ELSE dispatch(routingEvent(h, location), location, n - 1)

\* the browser moved to `location` behind the router's back: a popstate event
handleRoutingEvent(location) ==
    /\ registered > 0
    /\ budget > 0
    /\ Cardinality(Live(attempts)) < MaxOverlap
    /\ Becomes(dispatch([Engine EXCEPT !.url = location], location, registered),
               Step("popstate", 0, NoGuard, Nothing, NoAttempt))
    /\ UNCHANGED app

\* the hook call k is waiting for calls proceed(to)
proceeds(k, to) ==
    /\ k \in Live(attempts)
    /\ IsRedirect(to) => budget > 0
    /\ Becomes(proceed(Engine, k, to),
               Step("proceed", k, attempts[k].queue[attempts[k].index], to, attempts[k]))
    /\ UNCHANGED app

\* router.onReady(cb[, errorCb])
onReady(errorCb) ==
    /\ ready \/ Len(readyCbs) < MaxReadyCbs
    /\ Becomes(onReadyCb(Engine, Len(readyCbs) + 1, errorCb),
               Step("onReady", 0, NoGuard, Nothing, NoAttempt))
    /\ UNCHANGED app

\* the app's hook:destroyed handler, for the only app:
\* this.app = null; this.history.teardown()
destroyed ==
    /\ app
    /\ app' = FALSE
    /\ Becomes(teardown(Engine), Step("destroyed", 0, NoGuard, Nothing, NoAttempt))

\* mutant: the transition is started whatever current is
addRoutesAlways(routes) ==
    /\ calls < MaxAddRoutes
    /\ budget > 0 /\ Cardinality(Live(attempts)) < MaxOverlap
    /\ LET extended == [Engine EXCEPT !.table = createRouteMap(routes, Table, production),
                                      !.calls = @ + 1]
       IN Becomes(transitionTo(extended, Str(url), "transitionTo", "none", "none",
                               0, FALSE, FALSE),
                  Step("addRoutes", 0, NoGuard, Nothing, NoAttempt))
    /\ UNCHANGED app

\* router.addRoutes(routes): this.matcher.addRoutes(routes), then
\* if (this.history.current !== START) transitionTo(getCurrentLocation())
addRoutes(routes) ==
    /\ calls < MaxAddRoutes
    /\ currentId # 0 => budget > 0 /\ Cardinality(Live(attempts)) < MaxOverlap
    /\ LET extended == [Engine EXCEPT !.table = createRouteMap(routes, Table, production),
                                      !.calls = @ + 1]
       IN Becomes(IF currentId # 0
                  THEN transitionTo(extended, Str(url), "transitionTo", "none", "none",
                                    0, FALSE, FALSE)
                  ELSE extended,
                  Step("addRoutes", 0, NoGuard, Nothing, NoAttempt))
    /\ UNCHANGED app

\* routes whose pattern matches paths that a nested route matches too
NestedConfigs ==
    { Config(S(":id"), "", <<Leaf(S("u"), "u"), Leaf(<<"e">>, "e")>>, <<>>, NoRedirect),
      Config(<<"*">>, "", <<Leaf(S("u"), "wu"), Leaf(S("w"), "w")>>, <<>>, NoRedirect),
      Config(S("a"), "", <<Leaf(<<":o?">>, "ao"),
                           Config(<<"c">>, "", <<Leaf(<<"*">>, "acx")>>, <<>>, NoRedirect)>>,
             <<S(":x")>>, NoRedirect),
      Leaf(<<"*">>, "nf") }

InitNested ==
    /\ production \in BOOLEAN
    /\ calls = 0
    /\ \E routes \in RouteLists(NestedConfigs, MaxRoutes) :
          TableOf(createRouteMap(routes, EmptyTable, production))
    /\ MatchIdle
    /\ EngineIdle

NextBuild == \E routes \in RouteLists(AddConfigs, MaxRoutes) : addRoutes(routes)

SpecBuild == InitBuild /\ [][NextBuild]_vars

SpecNested == InitNested /\ [][NextBuild]_vars

Next ==
    \/ init
    \/ \E path \in TargetPaths : push(Str(path), "caller", "caller")
    \/ \E path \in TargetPaths : replace(Str(path), "caller", "caller")
    \/ \E path \in TargetPaths : handleRoutingEvent(path)
    \/ \E k \in 1..Len(attempts), to \in ProceedValues : proceeds(k, to)

Spec == Init /\ [][Next]_vars

\* the same router in an application with one beforeEach hook, which calls
\* proceed later
InitRouter ==
    /\ production = FALSE
    /\ calls = 0
    /\ TableOf(createRouteMap(EngineRoutes, EmptyTable, production))
    /\ MatchIdle
    /\ app = FALSE
    /\ current = START
    /\ currentId = 0
    /\ pending = 0
    /\ ready = FALSE
    /\ readyCbs = <<>>
    /\ readyErrorCbs = <<>>
    /\ committed = FALSE
    /\ listeners = <<>>
    /\ registered = 0
    /\ url = _startLocation
    /\ beforeHooks = <<2>>
    /\ resolveHooks = <<>>
    /\ afterHooks = <<>>
    /\ attempts = <<>>
    /\ budget = MaxRouterNavigations
    /\ last = NoStep

\* a callback given or left out
Callbacks == {"caller", "none"}

\* the routes the application adds later: a new path, and a path and a name
\* the table has
AddedRoutes == { <<Leaf(S("n"), "n")>>, <<Leaf(S("c"), "c")>> }

\* the application registers ready callbacks and destroys the app
NextReady ==
    \/ Next
    \/ \E errorCb \in BOOLEAN : onReady(errorCb)
    \/ destroyed

SpecReady == InitRouter /\ [][NextReady]_vars

\* the callers of push and replace give callbacks or leave them out
NextPromise ==
    \/ init
    \/ \E path \in TargetPaths, complete, onabort \in Callbacks :
          push(Str(path), complete, onabort)
    \/ \E path \in TargetPaths, complete, onabort \in Callbacks :
          replace(Str(path), complete, onabort)
    \/ \E path \in TargetPaths : handleRoutingEvent(path)
    \/ \E k \in 1..Len(attempts), to \in ProceedValues : proceeds(k, to)

SpecPromise == InitRouter /\ [][NextPromise]_vars

\* the application adds routes and destroys the app, and also navigates to
\* /n, a path only the added routes have
NextAddRoutes ==
    \/ Next
    \/ push(Str(S("n")), "caller", "caller")
    \/ destroyed
    \/ \E routes \in AddedRoutes : addRoutes(routes)

SpecAddRoutes == InitRouter /\ [][NextAddRoutes]_vars

\* the same application with room for a navigation after two init calls
InitListeners ==
    /\ production = FALSE
    /\ calls = 0
    /\ TableOf(createRouteMap(EngineRoutes, EmptyTable, production))
    /\ MatchIdle
    /\ app = FALSE
    /\ current = START
    /\ currentId = 0
    /\ pending = 0
    /\ ready = FALSE
    /\ readyCbs = <<>>
    /\ readyErrorCbs = <<>>
    /\ committed = FALSE
    /\ listeners = <<>>
    /\ registered = 0
    /\ url = _startLocation
    /\ beforeHooks = <<2>>
    /\ resolveHooks = <<>>
    /\ afterHooks = <<>>
    /\ attempts = <<>>
    /\ budget = MaxNavigations
    /\ last = NoStep

\* the application is mounted, destroyed and mounted again while the user
\* moves through the browser's history
NextListeners ==
    \/ init
    \/ destroyed
    \/ \E path \in TargetPaths : handleRoutingEvent(path)
    \/ \E k \in 1..Len(attempts), to \in ProceedValues : proceeds(k, to)

SpecListeners == InitListeners /\ [][NextListeners]_vars

\* the beforeEach hook of the application: one that calls proceed later, or
\* one of the three that throw or call proceed twice
GuardHooks == { <<2>>, <<3>>, <<4>>, <<5>> }

InitGuards ==
    /\ production = FALSE
    /\ calls = 0
    /\ TableOf(createRouteMap(EngineRoutes, EmptyTable, production))
    /\ MatchIdle
    /\ app = FALSE
    /\ current = START
    /\ currentId = 0
    /\ pending = 0
    /\ ready = FALSE
    /\ readyCbs = <<>>
    /\ readyErrorCbs = <<>>
    /\ committed = FALSE
    /\ listeners = <<>>
    /\ registered = 0
    /\ url = _startLocation
    /\ beforeHooks \in GuardHooks
    /\ resolveHooks = <<>>
    /\ afterHooks = <<1>>
    /\ attempts = <<>>
    /\ budget = MaxRouterNavigations
    /\ last = NoStep

\* everything a hook may pass to proceed
GuardValues == ProceedValues \cup { Null, ANumber, AFunction, PlainObject }

NextGuards ==
    \/ init
    \/ \E path \in TargetPaths : push(Str(path), "caller", "caller")
    \/ \E path \in TargetPaths : replace(Str(path), "caller", "caller")
    \/ \E path \in TargetPaths : handleRoutingEvent(path)
    \/ \E k \in 1..Len(attempts), to \in GuardValues : proceeds(k, to)

SpecGuards == InitGuards /\ [][NextGuards]_vars

\* the router of Spec in an application that navigates less, every hook of
\* which calls proceed in the end: a hook that was invoked does not wait for ever
InitLive ==
    /\ production = FALSE
    /\ calls = 0
    /\ TableOf(createRouteMap(EngineRoutes, EmptyTable, production))
    /\ MatchIdle
    /\ app = FALSE
    /\ current = START
    /\ currentId = 0
    /\ pending = 0
    /\ ready = FALSE
    /\ readyCbs = <<>>
    /\ readyErrorCbs = <<>>
    /\ committed = FALSE
    /\ listeners = <<>>
    /\ registered = 0
    /\ url = _startLocation
    /\ beforeHooks = <<1, 2>>
    /\ resolveHooks = <<1>>
    /\ afterHooks = <<1>>
    /\ attempts = <<>>
    /\ budget = MaxRouterNavigations
    /\ last = NoStep

SpecLive ==
    /\ InitLive
    /\ [][Next]_vars
    /\ \A k \in 1..MaxRouterNavigations :
          WF_vars(\E to \in ProceedValues : proceeds(k, to))

\* the same router with a beforeEach hook that calls proceed later and may
\* call it again, any number of times
InitAgain ==
    /\ production = FALSE
    /\ calls = 0
    /\ TableOf(createRouteMap(EngineRoutes, EmptyTable, production))
    /\ MatchIdle
    /\ app = FALSE
    /\ current = START
    /\ currentId = 0
    /\ pending = 0
    /\ ready = FALSE
    /\ readyCbs = <<>>
    /\ readyErrorCbs = <<>>
    /\ committed = FALSE
    /\ listeners = <<>>
    /\ registered = 0
    /\ url = _startLocation
    /\ beforeHooks = <<7>>
    /\ resolveHooks = <<>>
    /\ afterHooks = <<1>>
    /\ attempts = <<>>
    /\ budget = MaxRouterNavigations
    /\ last = NoStep

SpecAgain == InitAgain /\ [][NextGuards]_vars

----------------------------------------------------------------------------
(* resolveQueue and the in-component guards, on the chains of a route table *)

\* the routes of the engine and a second nested route
QueueRoutes ==
    EngineRoutes \o << Config(S("g"), "g", <<Leaf(<<"h">>, "gh")>>, <<>>, NoRedirect) >>

\* route.matched for the routes of table t: no record, or a record preceded
\* by its ancestors
Chains(t) == { <<>> } \cup { formatMatch(t.records, r) : r \in 1..Len(t.records) }

InitQueue ==
    /\ production = FALSE
    /\ calls = 0
    /\ \E t \in { createRouteMap(QueueRoutes, EmptyTable, production) } :
          /\ TableOf(t)
          /\ qcall \in [current : Chains(t), next : Chains(t)]
    /\ mraw = NoLocation
    /\ mcur = NoRoute
    /\ mres = NoResult
    /\ ResolveIdle
    /\ queued = NoQueue
    /\ PathIdle
    /\ EngineIdle

\* confirmTransition: resolveQueue(this.current.matched, route.matched),
\* extractLeaveGuards(deactivated) and, later, extractEnterGuards(activated)
resolveQueues ==
    /\ queued = NoQueue
    /\ \E q \in { resolveQueue(qcall.current, qcall.next) } :
          queued' = [called |-> TRUE, updated |-> q.updated, activated |-> q.activated,
                     deactivated |-> q.deactivated,
                     leave |-> extractLeaveGuards(records, q.deactivated),
                     enter |-> extractEnterGuards(records, q.activated)]
    /\ UNCHANGED <<tableVars, mraw, mcur, mres, rconf, resolved, qcall, pathCall, pathResolved, engineVars>>

NextQueue == resolveQueues

SpecQueue == InitQueue /\ [][NextQueue]_vars

----------------------------------------------------------------------------
(* resolvePath on its own: one call on a base path and a relative path *)

\* the lists of at most n segments
SegmentLists(segments, n) == UNION { [1..k -> segments] : k \in 0..n }

\* paths that begin with '/': '/' followed by segments, some of them empty,
\* with '/' between them
BasePaths ==
    { <<"/">> \o join(segments) : segments \in SegmentLists({"a", "b", ""}, MaxSegments) }

\* paths that begin with none of '/', '?' and '#': the empty path, and
\* segments with '/' between them the first of which is not empty
RelativePaths ==
    { join(segments) : segments \in { list \in SegmentLists({"c", "..", ".", ""}, MaxSegments) :
                                         list = <<>> \/ list[1] # "" } }

InitPath ==
    /\ production = FALSE
    /\ calls = 0
    /\ TableOf(EmptyTable)
    /\ mraw = NoLocation
    /\ mcur = NoRoute
    /\ mres = NoResult
    /\ ResolveIdle
    /\ QueueIdle
    /\ pathCall \in [relative : RelativePaths, base : BasePaths, append : BOOLEAN]
    /\ pathResolved = NoPath
    /\ EngineIdle

\* resolvePath(relative, base, append)
resolvesPath ==
    /\ pathResolved = NoPath
    /\ pathResolved' = [called |-> TRUE,
                        path |-> resolvePath(pathCall.relative, pathCall.base, pathCall.append)]
    /\ UNCHANGED <<tableVars, mraw, mcur, mres, rconf, resolved, qcall, queued, pathCall,
                   engineVars>>

NextPath == resolvesPath

SpecPath == InitPath /\ [][NextPath]_vars

----------------------------------------------------------------------------
(* Properties of the route table builder *)

IsWildcard(path) == path = <<"*">>

NotWildcard(path) == path # <<"*">>

\* the paths of regLog in the order of their first registration test
RECURSIVE firstTests(_, _)
firstTests(i, seen) ==
    IF i > Len(regLog) THEN <<>>
    ELSE IF regLog[i][1] \in seen THEN firstTests(i + 1, seen)
    ELSE <<regLog[i][1]>> \o firstTests(i + 1, seen \cup {regLog[i][1]})

RegisteredOrder == firstTests(1, {})

\* the record of the first registration test of a path
FirstRegistered(path) ==
    regLog[CHOOSE i \in 1..Len(regLog) :
              regLog[i][1] = path /\ \A j \in 1..(i - 1) : regLog[j][1] # path][2]

\* C9: after every createRouteMap call (the build and every addRoutes) every
\* entry '*' of pathList comes after every other entry, and the other entries
\* are in the order in which they were registered.
C9_WildcardsLast ==
    /\ \A i, j \in 1..Len(pathList) :
          (IsWildcard(pathList[i]) /\ NotWildcard(pathList[j])) => j < i
    /\ SelectSeq(pathList, NotWildcard) = SelectSeq(RegisteredOrder, NotWildcard)

\* an addRoutes call registered a new path after '*' was registered
C9_Witness ==
    /\ calls = 1
    /\ <<"*">> \in DOMAIN pathMap
    /\ \E path \in DOMAIN pathMap :
          /\ NotWildcard(path)
          /\ pathMap[path] = Len(records)
          /\ pathMap[<<"*">>] < pathMap[path]

\* C10: pathList holds exactly the keys of pathMap, each once; the record
\* bound to a path is the one of the first registration of that path, so a
\* later registration of the same path, in the same call or in addRoutes,
\* changes no binding.
C10_FirstRegistrationWins ==
    /\ { pathList[i] : i \in 1..Len(pathList) } = DOMAIN pathMap
    /\ \A i, j \in 1..Len(pathList) : pathList[i] = pathList[j] => i = j
    /\ \A i \in 1..Len(regLog) : regLog[i][1] \in DOMAIN pathMap
    /\ \A path \in DOMAIN pathMap : pathMap[path] = FirstRegistered(path)

\* addRoutes has run and some path was registered a second time
C10_Witness ==
    /\ calls = 1
    /\ \E i, j \in 1..Len(regLog) : i < j /\ regLog[i][1] = regLog[j][1]

\* the record of the first registration test of a name
FirstNamed(name) ==
    nameLog[CHOOSE i \in 1..Len(nameLog) :
               nameLog[i][1] = name /\ \A j \in 1..(i - 1) : nameLog[j][1] # name][2]

\* C11: a name is bound to the record of the first registration of that
\* name, whatever was registered after it in the same build, under an alias
\* or by addRoutes; and no step changes the record a name is bound to
C11_NameNeverRebound ==
    /\ [](/\ { nameLog[i][1] : i \in 1..Len(nameLog) } = DOMAIN nameMap
          /\ \A name \in DOMAIN nameMap : nameMap[name] = FirstNamed(name))
    /\ [][\A name \in DOMAIN nameMap :
             name \in DOMAIN nameMap' /\ nameMap'[name] = nameMap[name]]_vars

\* addRoutes has registered a name the build had bound, and the build had
\* registered the name of a child a second time under an alias
C11_Witness ==
    /\ calls = 1
    /\ \E i, j \in 1..Len(nameLog) :
          /\ i < j
          /\ nameLog[i][1] = nameLog[j][1]
          /\ records[nameLog[i][2]].matchAs = <<>>
          /\ records[nameLog[j][2]].matchAs = <<>>
    /\ \E i, j \in 1..Len(nameLog) :
          /\ i < j
          /\ nameLog[i][1] = nameLog[j][1]
          /\ records[nameLog[j][2]].matchAs # <<>>
          /\ records[nameLog[j][2]].parent # 0

----------------------------------------------------------------------------
(* Properties of the matcher, on the call recorded in mraw, mcur, mres *)

Matched == mres # NoResult

Requested == normalizeLocation(mraw, mcur, FALSE, records)

\* the record the requested location selects: by name, or the first entry
\* of pathList whose pattern matches the path; 0 when there is none
FirstRecord ==
    IF Requested.name # ""
    THEN IF Requested.name \in DOMAIN nameMap THEN nameMap[Requested.name] ELSE 0
    ELSE IF Requested.path = <<>> \/ firstMatch(Table, Requested.path) = 0 THEN 0
    ELSE pathMap[pathList[firstMatch(Table, Requested.path)]]

\* the params of the requested location once it has selected FirstRecord
RequestedParams ==
    IF Requested.name # ""
    THEN LET given == IF Requested.hasParams THEN Requested.params ELSE EmptyMap
             required == paramNames(FirstRecord, records)
         IN [k \in DOMAIN given \cup (required \cap DOMAIN mcur.params) |->
                IF k \in DOMAIN given THEN given[k] ELSE mcur.params[k]]
    ELSE matchRoute(records[FirstRecord].path, Requested.path, EmptyMap).params

RequestedPath ==
    IF Requested.name # ""
    THEN fillParams(records[FirstRecord].path, RequestedParams)
    ELSE Requested.path

\* the full path of the originally requested location
RequestedFullPath ==
    (IF RequestedPath # <<>> THEN RequestedPath ELSE <<"/">>)
        \o stringifyQuery(Requested.query) \o Requested.hash

RecordAt(path) ==
    IF path = <<>> \/ firstMatch(Table, path) = 0 THEN 0
    ELSE pathMap[pathList[firstMatch(Table, path)]]

\* the record a path redirect leads to, its target filled with params
NextInChain(r, params) ==
    RecordAt(fillParams(resolveRecordPath(records[r].redirect.path, r, records), params))

\* the record a path redirect leads to, its target read as it is written
NextAsWritten(r) ==
    RecordAt(resolveRecordPath(records[r].redirect.path, r, records))

\* the record an acyclic chain of path redirects from r ends in, 0 when the
\* chain breaks, leaves the path redirects or runs into a cycle
RECURSIVE ChainEnd(_, _, _)
ChainEnd(r, params, visited) ==
    IF r = 0 THEN 0
    ELSE IF records[r].redirect.kind = "none" THEN r
    ELSE IF records[r].redirect.kind # "path" \/ records[r].redirect.path = <<>>
            \/ r \in visited THEN 0
    ELSE ChainEnd(NextInChain(r, params), params, visited \cup {r})

RECURSIVE ChainEndAsWritten(_, _)
ChainEndAsWritten(r, visited) ==
    IF r = 0 THEN 0
    ELSE IF records[r].redirect.kind = "none" THEN r
    ELSE IF records[r].redirect.kind # "path" \/ records[r].redirect.path = <<>>
            \/ r \in visited THEN 0
    ELSE ChainEndAsWritten(NextAsWritten(r), visited \cup {r})

StartsChain ==
    /\ Matched
    /\ FirstRecord # 0
    /\ records[FirstRecord].redirect.kind = "path"

EndsIn(rn) ==
    /\ ~mres.thrown
    /\ mres.route.matched # <<>>
    /\ Last(mres.route.matched) = rn
    /\ mres.route.redirectedFrom = RequestedFullPath

AliasHit ==
    /\ Matched
    /\ Requested.name = ""
    /\ FirstRecord # 0
    /\ records[FirstRecord].redirect.kind = "none"
    /\ records[FirstRecord].matchAs # <<>>

\* the path alias() matches in place of the alias path
CanonicalPath == fillParams(records[FirstRecord].matchAs, RequestedParams)

IsPlain(r) ==
    r # 0 /\ records[r].redirect.kind = "none" /\ records[r].matchAs = <<>>

C8_MatchNeverThrows == Matched => ~mres.thrown


----------------------------------------------------------------------------
(* Properties of the transition engine *)

EventsOf(k) == { i \in 1..Len(last.events) : last.events[i].attempt = k }

Happened(k, types) == { i \in EventsOf(k) : last.events[i].type \in types }

\* a hook of a call that is no longer the pending one calls proceed
StaleProceed == last.op = "proceed" /\ last.stale

\* C1: when the guard of a superseded call A calls proceed, whatever the
\* value, current keeps its value, no navigation is started by that call,
\* and no navigation started that way ever becomes current
C1_StaleProceedChangesNothing ==
    /\ StaleProceed =>
          /\ current = last.current
          /\ \A i \in 1..Len(last.events) : last.events[i].type # "transitionTo"
    /\ \A i \in 1..Len(last.events) :
          last.events[i].type = "updateRoute" => ~last.events[i].detail

\* C2: whatever the guard of a superseded call A passes to proceed, the only
\* outcome reported for A is an abort of kind cancelled
C2_StaleOutcomeCancelled ==
    StaleProceed =>
        /\ \A i \in Happened(last.attempt, {"abort", "onAbort", "readyErrorCbs"}) :
              last.events[i].detail = "cancelled"
        /\ Happened(last.attempt, {"errorCbs", "onComplete", "updateRoute"}) = {}

\* a global before hook calls proceed(false)
BeforeGuardVeto ==
    /\ last.op = "proceed"
    /\ last.guard.cat = "before"
    /\ last.value = Bool(FALSE)

\* C3: when a global before hook calls proceed(false), current keeps its
\* value, which for the pending call is the one it had when the transition
\* began; no further guard is invoked and the call's queue is over; nothing
\* completes; the abort callback gets a failure of kind aborted
C3_BeforeGuardVetoAborts ==
    BeforeGuardVeto =>
        /\ current = last.current
        /\ ~last.stale => current = last.from
        /\ \A i \in 1..Len(last.events) :
              last.events[i].type \notin {"guard", "after", "updateRoute", "onComplete",
                                          "readyCbs", "transitionTo"}
        /\ attempts[last.attempt] = Done
        /\ Happened(last.attempt, {"abort"}) # {}
        /\ \A i \in Happened(last.attempt, {"abort", "onAbort"}) :
              last.events[i].detail = "aborted"
        /\ last.onAbort = "caller" => Happened(last.attempt, {"onAbort"}) # {}
        /\ last.onAbort = "setupListeners" => listening

\* the second beforeEach hook of a pending push or replace from a route other
\* than START has called proceed(false), and the caller's onAbort was told
C3_Witness ==
    /\ BeforeGuardVeto
    /\ last.guard = Guard("before", 2)
    /\ ~last.stale
    /\ last.from # START
    /\ \E i \in Happened(last.attempt, {"onAbort"}) : last.events[i].detail = "aborted"

\* the transitionTo calls of the last handler whose target equals current
DuplicateCalls ==
    { i \in 1..Len(last.events) :
        /\ last.events[i].type = "transitionTo"
        /\ Duplicated(last.events[i].detail.route, last.current) }

\* C4: a transition toward a target that equals current invokes no guard of
\* any category and no after hook, leaves current as it is, leaves the
\* persisted location equal to current's full path, and ends in an abort of
\* kind duplicated
C4_DuplicateAborts ==
    \A i \in DuplicateCalls :
        LET k == last.events[i].attempt
        IN /\ Happened(k, {"guard", "after", "updateRoute", "onComplete", "readyCbs"}) = {}
           /\ current = last.current
           /\ url = current.fullPath
           /\ attempts[k] = Done
           /\ Happened(k, {"abort"}) # {}
           /\ \A j \in Happened(k, {"abort", "onAbort"}) : last.events[j].detail = "duplicated"
           /\ last.op \in {"push", "replace"} => Happened(k, {"onAbort"}) # {}

\* push toward the current route while the location bar holds another
\* location: the location is written back and the caller's onAbort is told
C4_Witness ==
    /\ last.op = "push"
    /\ DuplicateCalls # {}
    /\ \E i \in 1..Len(last.events) :
          /\ last.events[i].type = "replaceState"
          /\ last.events[i].detail = last.current.fullPath
    /\ \E i \in 1..Len(last.events) :
          last.events[i].type = "onAbort" /\ last.events[i].detail = "duplicated"

Rank(cat) ==
    CASE cat = "leave" -> 1
      [] cat = "before" -> 2
      [] cat = "update" -> 3
      [] cat = "beforeEnter" -> 4
      [] cat = "async" -> 5
      [] cat = "enter" -> 6
      [] cat = "resolve" -> 7

\* the position of x in seq, 0 when it is not there
Position(seq, x) ==
    IF \E i \in 1..Len(seq) : seq[i] = x
    THEN CHOOSE i \in 1..Len(seq) : seq[i] = x ELSE 0

\* g is invoked before h in the call a: is that their documented order?
InOrder(a, g, h) ==
    /\ Rank(g.cat) <= Rank(h.cat)
    /\ g.cat = h.cat =>
          CASE g.cat = "leave" ->
                   Position(a.from.matched, g.key) > Position(a.from.matched, h.key)
            [] g.cat = "before" ->
                   Position(beforeHooks, g.key) < Position(beforeHooks, h.key)
            [] g.cat = "resolve" ->
                   Position(resolveHooks, g.key) < Position(resolveHooks, h.key)
            [] g.cat = "async" -> FALSE
            [] OTHER ->
                   Position(a.route.matched, g.key) < Position(a.route.matched, h.key)

\* the record of a guard is one the transition deactivates, updates or
\* activates, as the category of the guard says
OfItsCategory(a, g) ==
    CASE g.cat = "leave" ->
             Position(a.from.matched, g.key) > 0 /\ Position(a.route.matched, g.key) = 0
      [] g.cat = "update" ->
             Position(a.from.matched, g.key) > 0 /\ Position(a.route.matched, g.key) > 0
      [] g.cat \in {"beforeEnter", "enter"} ->
             Position(a.from.matched, g.key) = 0 /\ Position(a.route.matched, g.key) > 0
      [] OTHER -> TRUE

\* C5: the guards one transition has invoked so far are in the fixed order:
\* leave guards innermost first, global before hooks in registration order,
\* update guards root to leaf, beforeEnter root to leaf, the component
\* resolution step, enter guards root to leaf, global resolve hooks in
\* registration order
C5_GuardOrder ==
    \A k \in Live(attempts) :
        LET a == attempts[k]
        IN /\ \A i, j \in 1..Len(a.invoked) :
                 i < j => InOrder(a, a.invoked[i], a.invoked[j])
           /\ \A i \in 1..Len(a.invoked) : OfItsCategory(a, a.invoked[i])

\* a transition from /a/b/e to /a/d has invoked a guard of each of the seven
\* categories: two leave guards, both before hooks, and one of each other
C5_Witness ==
    \E k \in Live(attempts) :
        /\ { attempts[k].invoked[i].cat : i \in 1..Len(attempts[k].invoked) }
              = {"leave", "before", "update", "beforeEnter", "async", "enter", "resolve"}
        /\ Len(attempts[k].invoked) = 9


----------------------------------------------------------------------------
(* Properties of the matcher on locations with params *)

\* the names of the captures a pattern cannot be filled without
Required(pattern) ==
    { KeyOf[pattern[i]].name :
        i \in { j \in 1..Len(pattern) : IsKey(pattern[j]) /\ ~KeyOf[pattern[j]].optional } }

\* the pattern with every capture replaced by its value, an optional
\* capture without a value being left out with its separator
RECURSIVE Filled(_, _)
Filled(pattern, params) ==
    IF pattern = <<>> THEN <<>>
    ELSE IF Len(pattern) >= 2 /\ pattern[1] = "/" /\ IsKey(pattern[2])
    THEN (IF KeyOf[pattern[2]].name \in DOMAIN params
          THEN <<"/">> \o params[KeyOf[pattern[2]].name] ELSE <<>>)
             \o Filled(SubSeq(pattern, 3, Len(pattern)), params)
    ELSE <<pattern[1]>> \o Filled(Tail(pattern), params)

Called == mres # NoResult

ParamsOf(x) == IF x = NoRoute THEN EmptyMap
               ELSE IF "hasParams" \in DOMAIN x /\ ~x.hasParams THEN EmptyMap
               ELSE x.params

\* a location with a registered name whose record neither redirects nor is
\* an alias
NamedCall ==
    /\ Called
    /\ mraw.name \in DOMAIN nameMap
    /\ records[nameMap[mraw.name]].redirect = NoRedirect
    /\ records[nameMap[mraw.name]].matchAs = <<>>

\* the params the caller gave, and from current those the record requires
\* and the caller did not give
MergedByName ==
    LET given == ParamsOf(mraw)
        had == ParamsOf(mcur)
        pattern == records[nameMap[mraw.name]].path
    IN [k \in DOMAIN given \cup (Required(pattern) \cap DOMAIN had) |->
           IF k \in DOMAIN given THEN given[k] ELSE had[k]]

\* C12: for a location with a registered name the Route's params are the
\* caller's params plus, from current, exactly the required captures of the
\* record that the caller left out; the deepest matched record is the named
\* one; when every required capture has a value, the path is the record's
\* pattern filled with those params
C12_NamedParamsInherited ==
    NamedCall =>
        /\ ~mres.thrown
        /\ mres.route.params = MergedByName
        /\ mres.route.name = mraw.name
        /\ Last(mres.route.matched) = nameMap[mraw.name]
        /\ Required(records[nameMap[mraw.name]].path) \subseteq DOMAIN MergedByName =>
              mres.route.path = Filled(records[nameMap[mraw.name]].path, MergedByName)

\* {name: 'f'} without params on '/f/:id/:o?' from a current route with id
\* and o: id is inherited, o is not
C12_Witness ==
    /\ NamedCall
    /\ mraw = Named("f", EmptyMap)
    /\ mcur # NoRoute
    /\ mcur.params = ("id" :> <<"1">>) @@ ("o" :> <<"4">>)
    /\ mres.route.params = ("id" :> <<"1">>)
    /\ mres.route.path = S("f") \o S("1")


\* a location with params but neither path nor name, and a current route
RelativeCall ==
    /\ Called
    /\ mraw.name = ""
    /\ mraw.path = <<>>
    /\ mraw.hasParams
    /\ mcur # NoRoute

\* current's params overridden by the raw params
MergedRelative ==
    [k \in DOMAIN mraw.params \cup DOMAIN mcur.params |->
        IF k \in DOMAIN mraw.params THEN mraw.params[k] ELSE mcur.params[k]]

\* C13: for a location with params but neither path nor name: from a named
\* current route the Route is the one of that name with current's params
\* overridden by the raw params; from an unnamed current route the path is
\* the pattern of current's deepest matched record filled with those params
C13_RelativeParams ==
    RelativeCall =>
        /\ ~mres.thrown
        /\ (mcur.name # "" /\ mcur.name \in DOMAIN nameMap) =>
              /\ mres.route.name = mcur.name
              /\ mres.route.params = MergedRelative
              /\ Last(mres.route.matched) = nameMap[mcur.name]
              /\ mres.route.path = Filled(records[nameMap[mcur.name]].path, MergedRelative)
        /\ (mcur.name = "" /\ mcur.matched # <<>>) =>
              LET pattern == records[Last(mcur.matched)].path
              IN Required(pattern) \subseteq DOMAIN MergedRelative =>
                    mres.route.path = Filled(pattern, MergedRelative)

\* {params: {id: '2'}} from the unnamed route /n/1, whose record is
\* '/n/:id': the path is /n/2
C13_Witness ==
    /\ RelativeCall
    /\ mcur.name = ""
    /\ mcur.params = ("id" :> <<"1">>)
    /\ records[Last(mcur.matched)].path = S("n") \o S(":id")
    /\ mraw.params = ("id" :> <<"2">>)
    /\ mres.route.path = S("n") \o S("2")


\* the params captured from the path of a location given as an absolute path
CapturedParams ==
    matchRoute(records[FirstRecord].path, mraw.path, EmptyMap).params

\* a named match whose record requires a param nobody has a value for
NamedFillFails ==
    /\ NamedCall
    /\ ~(Required(records[nameMap[mraw.name]].path) \subseteq DOMAIN MergedByName)

\* a path that selects a record redirecting to a pattern the captured
\* params cannot fill
RedirectFillFails ==
    /\ Called
    /\ mraw.path # <<>>
    /\ FirstRecord # 0
    /\ records[FirstRecord].redirect.kind = "path"
    /\ ~(Required(records[FirstRecord].redirect.path) \subseteq DOMAIN CapturedParams)

\* a path that selects an alias record whose canonical pattern the captured
\* params cannot fill
AliasFillFails ==
    /\ Called
    /\ mraw.path # <<>>
    /\ FirstRecord # 0
    /\ records[FirstRecord].redirect.kind = "none"
    /\ records[FirstRecord].matchAs # <<>>
    /\ ~(Required(records[FirstRecord].matchAs) \subseteq DOMAIN CapturedParams)

\* C14: when a pattern cannot be filled because a required param has no
\* value, in a named match, a redirect or an alias, the Route returned has
\* an empty matched chain
C14_FillFailureMatchesNothing ==
    (NamedFillFails \/ RedirectFillFails \/ AliasFillFails) =>
        /\ ~mres.thrown
        /\ mres.route.matched = <<>>


----------------------------------------------------------------------------
(* Properties of the engine's failure reports *)

Aborts == { i \in 1..Len(last.events) : last.events[i].type = "abort" }

\* the abort callback given to the transitionTo call k, which either began
\* in the last handler or is the call whose hook called proceed
SuppliedOnAbort(k) ==
    IF \E i \in Happened(k, {"transitionTo"}) : TRUE
    THEN last.events[CHOOSE i \in Happened(k, {"transitionTo"}) : TRUE].detail.onAbort
    ELSE last.onAbort

\* C15: when a transition aborts, the error observers are called if and
\* only if the failure is an error that is not a NavigationFailure; a
\* failure of kind duplicated, cancelled, redirected or aborted reaches no
\* error observer; the abort callback, when one was given, is called with
\* the failure
C15_ObserversSeeErrorsOnly ==
    /\ \A i \in Aborts :
          LET k == last.events[i].attempt
              kind == last.events[i].detail
          IN /\ (Happened(k, {"errorCbs"}) # {}) <=> (kind = "error")
             /\ \A j \in Happened(k, {"errorCbs"}) : last.events[j].detail = kind
             /\ SuppliedOnAbort(k) = "caller" =>
                   \E j \in Happened(k, {"onAbort"}) : last.events[j].detail = kind
             /\ SuppliedOnAbort(k) = "setupListeners" => listening
    /\ \A j \in 1..Len(last.events) :
          (last.events[j].type = "errorCbs" /\ last.events[j].attempt # 0) =>
              \E i \in Aborts : last.events[i].attempt = last.events[j].attempt

\* a handler in which a guard's error aborted a push (observers and the
\* caller's onAbort called) and one in which a failure aborted one
C15_Witness ==
    /\ last.op = "proceed"
    /\ last.value = AnError
    /\ last.onAbort = "caller"
    /\ \E i \in Aborts : last.events[i].detail = "error"
    /\ Happened(last.attempt, {"errorCbs"}) # {}
    /\ \E j \in Happened(last.attempt, {"onAbort"}) : last.events[j].detail = "error"


Threw == \E i \in 1..Len(last.events) : last.events[i].type = "throw"

\* C16: if the matcher throws while transitionTo resolves the raw target,
\* the error observers are called with the exception, the exception is
\* thrown on to the caller, no guard and neither callback is called, and
\* current and pending (and the calls under way) stay as they were
C16_MatcherThrowChangesNothing ==
    [][Threw' =>
          /\ \E e \in {"assert", "RangeError"} :
                last'.events = <<Ev("errorCbs", 0, e), Ev("throw", 0, e)>>
          /\ current' = current
          /\ currentId' = currentId
          /\ pending' = pending
          /\ attempts' = attempts
          /\ ready' = ready
          /\ listening' = listening]_vars

\* a push to /x threw while a Route was current and another call was pending
C16_Witness ==
    /\ Threw
    /\ last.op = "push"
    /\ last.events = <<Ev("errorCbs", 0, "assert"), Ev("throw", 0, "assert")>>
    /\ current # START
    /\ pending # 0
    /\ pending \in Live(attempts)


----------------------------------------------------------------------------
(* Properties of redirects asked for by a guard *)

\* the last handler was a guard passing a location to proceed
Redirecting == last.op = "proceed" /\ IsRedirect(last.value)

\* the transitionTo calls the last handler began on behalf of call k
BegunBy(k) ==
    { n \in 1..Len(last.events) :
        last.events[n].type = "transitionTo" /\ last.events[n].detail.by = k }

----------------------------------------------------------------------------
(* Properties of the ready callbacks *)

\* the updateRoute calls of the last handler
Commits == { i \in 1..Len(last.events) : last.events[i].type = "updateRoute" }

\* the last handler ran the first updateRoute of the history's lifetime
FirstCommit == Commits # {} /\ ~last.committed

\* the calls of ready callback cb made by a flush of the last handler
Flushed(cb) ==
    { i \in 1..Len(last.events) :
        /\ last.events[i].type = "readyCb"
        /\ last.events[i].attempt # 0
        /\ last.events[i].detail.cb = cb }

\* the ready callbacks registered so far are called once each, after an
\* updateRoute of the last handler, and by the call that ran it
FlushedOnce ==
    \A cb \in 1..Len(readyCbs) :
        /\ Cardinality(Flushed(cb)) = 1
        /\ \A i \in Flushed(cb) :
              \E c \in Commits :
                 c < i /\ last.events[c].attempt = last.events[i].attempt

NothingFlushed ==
    \A i \in 1..Len(last.events) :
        ~(last.events[i].type = "readyCb" /\ last.events[i].attempt # 0)

\* C18 as stated: the first commit of the lifetime calls each registered
\* ready callback once, whatever aborted before it, and no other handler
\* calls one
C18_FirstCommitFlushes ==
    IF FirstCommit THEN FlushedOnce ELSE NothingFlushed

\* C18: the ready callbacks are flushed at most once in the history's
\* lifetime, by the first commit that finds the history not ready: each
\* callback registered until then is called once, by that commit; a commit
\* that finds the history ready, as after an abort that marked it ready or
\* after an earlier commit and a teardown, calls none; ready is never reset
\* and a ready history registers no callback
C18_ReadyFlushedOnce ==
    /\ [](IF Commits # {} /\ ~last.ready THEN FlushedOnce /\ ready ELSE NothingFlushed)
    /\ [][ready => (ready' /\ readyCbs' = readyCbs /\ readyErrorCbs' = readyErrorCbs)]_vars

\* the first commit flushed two callbacks after an earlier call had
\* aborted (a redirect from START, which leaves the history not ready)
C18_Witness ==
    /\ FirstCommit
    /\ ~last.ready
    /\ Len(readyCbs) = 2
    /\ FlushedOnce
    /\ \E k \in 1..Len(attempts) : \E c \in Commits : k < last.events[c].attempt

\* the first commit found the history ready, an abort having marked it, and
\* called none of the registered callbacks
C18_ReadyByAbort ==
    /\ FirstCommit
    /\ last.ready
    /\ Len(readyCbs) > 0
    /\ NothingFlushed


----------------------------------------------------------------------------
(* Properties of push and replace without callbacks *)

\* the completion callback given to the transitionTo call k
SuppliedOnComplete(k) ==
    IF \E i \in Happened(k, {"transitionTo"}) : TRUE
    THEN last.events[CHOOSE i \in Happened(k, {"transitionTo"}) : TRUE].detail.onComplete
    ELSE last.onComplete

\* the transitionTo calls the last handler worked on
Touched == { last.events[i].attempt : i \in 1..Len(last.events) } \ {0}

Returns(value) == \E i \in 1..Len(last.events) : last.events[i] = Ev("return", 0, value)

WithoutCallbacks == last.value.onComplete = "none" /\ last.value.onAbort = "none"

\* the promise of call k is settled by the last handler as the call ended
SettledAsEnded(k) ==
    /\ Cardinality(Happened(k, {"resolve", "reject"})) <= 1
    /\ (Happened(k, {"resolve"}) # {}) <=> (Happened(k, {"updateRoute"}) # {})
    /\ \A i \in Happened(k, {"resolve"}) :
          /\ currentId = k
          /\ last.events[i].detail = current.fullPath
    /\ (Happened(k, {"reject"}) # {}) <=> (Happened(k, {"abort"}) # {})
    /\ \A i \in Happened(k, {"reject"}) :
          \E j \in Happened(k, {"abort"}) : last.events[j].detail = last.events[i].detail
    /\ Happened(k, {"onComplete", "onAbort"}) = {}

\* the callbacks given with call k are told how it ended
ToldAsEnded(k) ==
    /\ Happened(k, {"resolve", "reject"}) = {}
    /\ (Happened(k, {"onComplete"}) # {}) <=>
          (SuppliedOnComplete(k) = "caller" /\ Happened(k, {"updateRoute"}) # {})
    /\ (Happened(k, {"onAbort"}) # {}) <=>
          (SuppliedOnAbort(k) = "caller" /\ Happened(k, {"abort"}) # {})

\* C19: push and replace without any callback return a promise, which is
\* resolved with the target Route exactly when the call commits and
\* rejected with the failure exactly when it aborts; with at least one
\* callback they return no promise and the callbacks are told the outcome
C19_DeferredOutcome ==
    /\ last.op \in {"push", "replace"} =>
          /\ Returns("Promise") <=> WithoutCallbacks
          /\ Returns("undefined") <=> (~WithoutCallbacks /\ ~Threw)
          /\ \A i \in BegunBy(0) :
                /\ last.events[i].detail.onComplete =
                      IF WithoutCallbacks THEN "resolve" ELSE last.value.onComplete
                /\ last.events[i].detail.onAbort =
                      IF WithoutCallbacks THEN "reject" ELSE last.value.onAbort
    /\ \A k \in Touched :
          /\ (SuppliedOnComplete(k) = "resolve") <=> (SuppliedOnAbort(k) = "reject")
          /\ IF SuppliedOnComplete(k) = "resolve" THEN SettledAsEnded(k) ELSE ToldAsEnded(k)
    /\ \A i \in 1..Len(last.events) :
          (last.events[i].attempt = 0 /\ last.events[i].type \in {"resolve", "reject"}) =>
              \* the matcher threw in the promise's executor: no call began
              /\ last.events[i].type = "reject"
              /\ last.op \in {"push", "replace"}
              /\ WithoutCallbacks
              /\ BegunBy(0) = {}

\* a push without callbacks waited at a hook, committed when the hook
\* called proceed, and its promise was resolved with the Route
C19_Witness ==
    /\ last.op = "proceed"
    /\ last.onComplete = "resolve"
    /\ last.onAbort = "reject"
    /\ currentId = last.attempt
    /\ \E i \in Happened(last.attempt, {"resolve"}) :
          last.events[i].detail = current.fullPath


----------------------------------------------------------------------------
(* Properties of addRoutes on a router in use *)

\* every entry of the route table is kept
TableKept(t, u) ==
    /\ Len(t.records) <= Len(u.records)
    /\ SubSeq(u.records, 1, Len(t.records)) = t.records
    /\ \A path \in DOMAIN t.pathMap :
          path \in DOMAIN u.pathMap /\ u.pathMap[path] = t.pathMap[path]
    /\ \A name \in DOMAIN t.nameMap :
          name \in DOMAIN u.nameMap /\ u.nameMap[name] = t.nameMap[name]

\* every path and name the table was asked to register is in it
AllRegistered(u) ==
    /\ \A i \in 1..Len(u.regLog) : u.regLog[i][1] \in DOMAIN u.pathMap
    /\ \A i \in 1..Len(u.nameLog) : u.nameLog[i][1] \in DOMAIN u.nameMap
    /\ \A i \in 1..Len(u.pathList) : u.pathList[i] \in DOMAIN u.pathMap

\* C20: addRoutes extends the route table and then calls transitionTo with
\* the location of the window, resolved on the extended table, if and only
\* if current is not START; when current is START it starts no transition
\* and current, pending and the calls under way stay as they were
C20_AddRoutesRenavigates ==
    [][calls' # calls =>
          /\ last'.op = "addRoutes"
          /\ calls' = calls + 1
          /\ TableKept(Table, Table')
          /\ AllRegistered(Table')
          /\ Len(regLog') > Len(regLog)
          /\ IF currentId # 0
             THEN \/ Threw'
                     /\ match(Table', Str(url), current, NoLocation, production,
                              StackLimit).thrown
                  \/ /\ ~Threw'
                     /\ Cardinality(BegunBy(0)') = 1
                     /\ \A i \in BegunBy(0)' :
                           /\ last'.events[i].attempt = Len(attempts) + 1
                           /\ last'.events[i].detail.route =
                                 match(Table', Str(url), current, NoLocation,
                                       production, StackLimit).route
                           /\ last'.events[i].detail.route.path = url
                           /\ \A j \in 1..(i - 1) :
                                 last'.events[j].type # "transitionTo"
             ELSE /\ last'.events = <<>>
                  /\ current' = current
                  /\ currentId' = currentId
                  /\ pending' = pending
                  /\ attempts' = attempts
                  /\ url' = url]_vars

\* addRoutes added /n while current was the Route of /n that matched
\* nothing, and the transition it started goes to the added record
C20_Witness ==
    /\ last.op = "addRoutes"
    /\ last.current # START
    /\ last.current.path = S("n")
    /\ last.current.matched = <<>>
    /\ \E i \in BegunBy(0) :
          /\ last.events[i].detail.route.path = S("n")
          /\ Len(last.events[i].detail.route.matched) = 1
          /\ last.events[i].attempt \in Live(attempts)


----------------------------------------------------------------------------
(* Properties of router.resolve *)

\* two resolve calls handed back structurally equal results
SameAnswer(a, b) ==
    /\ a.thrown = b.thrown
    /\ a.error = b.error
    /\ a.location = b.location
    /\ a.route = b.route
    /\ a.href = b.href

\* C21: a resolve call with the arguments of the calls before it (the same
\* `to` object, current and append, no addRoutes in between) returns a
\* location, route and href structurally equal to theirs, and changes neither
\* current nor pending nor the route table
C21_ResolveRepeatable ==
    [][resolved' # resolved =>
          /\ \A i \in 1..Len(resolved) : SameAnswer(resolved[i], resolved'[Len(resolved')])
          /\ UNCHANGED <<current, currentId, pending, tableVars>>]_vars

\* the first of two calls wrote inherited params and a filled path into the
\* normalized, named `to` object it was given
C21_Witness ==
    /\ Len(resolved) = 2
    /\ ~resolved[1].thrown
    /\ resolved[1].to.normalized
    /\ resolved[1].to.name # ""
    /\ resolved[2].to.path # resolved[1].to.path
    /\ resolved[2].to.params # resolved[1].to.params
    /\ resolved[1].route.matched # <<>>


----------------------------------------------------------------------------
(* Properties of teardown *)

\* C22: teardown leaves current at START, pending null and no listener
\* registered; and when a guard of a call that was suspended while teardown
\* ran calls proceed later, whatever the value, current keeps its value, in
\* that handler and in the handlers of a navigation begun on that call's behalf
C22_TeardownEndsAttempts ==
    /\ last.op = "destroyed" =>
          /\ current = START
          /\ currentId = 0
          /\ pending = 0
          /\ ~listening
    /\ (last.op = "proceed" /\ last.tornDown) => current = last.current


----------------------------------------------------------------------------
(* Properties of setupListeners *)

\* the last handler called setupListeners: a call begun by init ended
SetupCalled ==
    \E k \in Touched :
        /\ SuppliedOnAbort(k) = "setupListeners"
        /\ Happened(k, {"abort", "updateRoute"}) # {}

\* the transitionTo calls the last handler made, returned or thrown
TransitionToCalls ==
    { i \in 1..Len(last.events) : last.events[i].type \in {"transitionTo", "throw"} }

\* whatever the calls of setupListeners and teardown so far, at most one
\* listener is registered: exactly one after a setupListeners call, none
\* after teardown, and a location change calls the listener once
RegisteredOnce ==
    /\ registered <= 1
    /\ SetupCalled => registered = 1 /\ Len(listeners) = 1
    /\ last.op = "destroyed" => registered = 0 /\ listeners = <<>>
    /\ last.op = "popstate" => registered = 1

----------------------------------------------------------------------------
(* Properties of guards that throw or call proceed more than once *)

\* C24: a call has one terminal outcome, whatever its guards do: within a
\* handler, a call whose abort callback was called does not commit (no
\* updateRoute sets current to its route), and the abort callback of a call
\* that committed is not called
C24_OneTerminalOutcome ==
    \A k \in Touched :
        \A i, j \in EventsOf(k) :
            ~(last.events[i].type = "abort" /\ last.events[j].type = "updateRoute")


----------------------------------------------------------------------------
(* Properties of the order of guards and proceed calls within a call *)

\* the guards of call k the last handler invoked, in order
GuardsOf(k) ==
    LET invoked == SelectSeq(last.events, LAMBDA e : e.type = "guard" /\ e.attempt = k)
    IN [i \in 1..Len(invoked) |-> invoked[i].detail]

\* a value that lets the queue go on
Continues(to) == to # Bool(FALSE) /\ to.kind # "error" /\ ~IsRedirect(to)

\* the handler was the hook `guard` of call k calling proceed with a value
\* that lets the queue go on
ProceededIn(handler, k, guard) ==
    /\ handler.op = "proceed"
    /\ handler.attempt = k
    /\ handler.guard = guard
    /\ Continues(handler.value)

\* the entries of the first queue of a call from route `from` to `route`
\* that are guards
FirstQueue(from, route) ==
    LET q == resolveQueue(from.matched, route.matched)
    IN SelectSeq(extractLeaveGuards(records, q.deactivated)
                     \o hookGuards("before", beforeHooks)
                     \o extractUpdateHooks(records, q.updated)
                     \o beforeEnterGuards(records, q.activated)
                     \o <<Guard("async", 0)>>,
                 LAMBDA g : g # NoGuard)

\* C25: within a call a guard is invoked only once the guard queued before it
\* has called proceed; an enter or resolve guard only once every guard of the
\* first queue was invoked and has called proceed; and the call commits only
\* in a handler in which its last guard called proceed, so that a guard that
\* never calls proceed keeps the call from committing
C25_GuardsWaitForProceed ==
    [][\A k \in Touched' :
          LET was == IF k \in Live(attempts) THEN attempts[k].invoked ELSE <<>>
              now == GuardsOf(k)'
              all == was \o now
          IN /\ \A p \in 1..Len(now) :
                    IF p > 1 THEN callsProceedAtOnce(now[p - 1])
                    ELSE IF was = <<>> THEN Happened(k, {"transitionTo"})' # {}
                    ELSE ProceededIn(last', k, was[Len(was)])
             /\ \A p \in Len(was) + 1..Len(all) :
                    (all[p].cat \in {"enter", "resolve"} /\ k \in Live(attempts)) =>
                        LET first == FirstQueue(attempts[k].from, attempts[k].route)
                        IN /\ Len(first) < p
                           /\ SubSeq(all, 1, Len(first)) = first
             /\ Happened(k, {"updateRoute"})' # {} =>
                    /\ all # <<>>
                    /\ IF now # <<>> THEN callsProceedAtOnce(now[Len(now)])
                       ELSE ProceededIn(last', k, was[Len(was)])]_vars

\* the second beforeEach hook called proceed, and the handler went on to the
\* rest of the first queue and to the enter guards, up to the resolve hook
C25_Witness ==
    /\ last.op = "proceed"
    /\ last.guard = Guard("before", 2)
    /\ Continues(last.value)
    /\ \E i, j \in EventsOf(last.attempt) :
          /\ i < j
          /\ last.events[i].type = "guard" /\ last.events[i].detail.cat = "beforeEnter"
          /\ last.events[j].type = "guard" /\ last.events[j].detail.cat = "enter"
    /\ last.attempt \in Live(attempts)
    /\ attempts[last.attempt].queue[attempts[last.attempt].index] = Guard("resolve", 1)


----------------------------------------------------------------------------
(* Properties of the supersession check *)

\* the call begun last when event i of the handler happens, or `before` if
\* the handler began none until then; every transitionTo call makes its own
\* route the pending one
BegunLastAt(events, i, before) ==
    LET begun == { j \in 1..(i - 1) : events[j].type = "transitionTo" }
    IN IF begun = {} THEN before
       ELSE events[CHOOSE j \in begun : \A l \in begun : l <= j].attempt

\* C26: a guard of a call is invoked, and a call commits, only while the
\* route of that call is the pending one; so once a later call has begun, an
\* earlier call that overlaps it does not commit: the call that commits is
\* the one begun last
C26_CommitOnlyWhilePending ==
    [][\A i \in 1..Len(last'.events) :
          LET e == last'.events[i]
          IN /\ e.type \in {"guard", "updateRoute"} =>
                   BegunLastAt(last'.events, i, pending) = e.attempt
             /\ e.type = "updateRoute" =>
                   BegunLastAt(last'.events, i, Len(attempts)) = e.attempt]_vars

\* a call that had been superseded by a later one was cancelled when its
\* guard called proceed, and the later call is still pending
C26_Witness ==
    /\ last.op = "proceed"
    /\ last.stale
    /\ Continues(last.value)
    /\ \E i \in Happened(last.attempt, {"abort"}) : last.events[i].detail = "cancelled"
    /\ pending > last.attempt
    /\ pending \in Live(attempts)


----------------------------------------------------------------------------
(* Properties of the commit *)

\* the events of call k of the given types that the last handler emitted
\* after event i
Later(k, types, i) == { j \in Happened(k, types) : j > i }

\* C27: when a call commits, pending is cleared and current is the target;
\* after updateRoute (which sets current and notifies the change listener)
\* come the caller's completion callback with the write it stands for, then
\* the re-sync of the location, then every after hook, then the flush of the
\* ready callbacks; each after hook is called with current equal to the
\* target, and its second argument is the route that was current before the
\* commit
C27_CommitOrder ==
    \A i \in Commits :
        LET k == last.events[i].attempt
            completions == Later(k, {"pushState", "replaceState", "onComplete"}, 0)
            syncs == Later(0, {"pushState", "replaceState"}, i)
            hooks == Later(k, {"after"}, 0)
            flushes == Later(k, {"readyCbs", "readyCb"}, 0)
        IN /\ pending = 0
           /\ currentId = k
           /\ url = cleanPath(current.fullPath)
           /\ \A c \in completions : i < c
           /\ \A c \in completions, s \in syncs : c < s
           /\ \A c \in completions \cup syncs \cup {i}, a \in hooks : c < a
           /\ \A a \in hooks \cup completions \cup syncs, r \in flushes : a < r
           /\ Cardinality(hooks) = Len(afterHooks)
           /\ \A a \in hooks :
                 /\ last.events[a].detail.current = current.fullPath
                 /\ last.events[a].detail.to = current.fullPath
                 /\ last.events[a].detail.from = last.current.fullPath

\* a push committed from a route other than START: pushState, the caller's
\* completion callback and the after hook followed updateRoute
C27_Witness ==
    \E i \in Commits :
        /\ last.current # START
        /\ last.current.fullPath # current.fullPath
        /\ Later(last.events[i].attempt, {"pushState"}, i) # {}
        /\ Later(last.events[i].attempt, {"onComplete"}, i) # {}
        /\ Later(last.events[i].attempt, {"after"}, i) # {}


----------------------------------------------------------------------------
(* Properties of a guard that throws *)

\* the guard events of the last handler whose hook threw before calling proceed
ThrownAt ==
    { i \in 1..Len(last.events) :
        last.events[i].type = "guard" /\ throwsAtOnce(last.events[i].detail) }

\* the abort callback call k was started with in the last handler
AbortCallbackOf(k) ==
    LET begun == SelectSeq(last.events,
                           LAMBDA e : e.type = "transitionTo" /\ e.attempt = k)
    IN IF begun = <<>> THEN "none" ELSE begun[1].detail.onAbort

\* the handler told `type` of the error of call k after event i
ToldAfter(i, type, k) ==
    \E j \in i + 1..Len(last.events) : last.events[j] = Ev(type, k, "error")

\* C28: a guard that throws at once does what the same guard does by passing
\* the error to proceed: the call aborts with the error, the error observers
\* are told, the caller's abort callback gets the error, and the location of
\* the window is the full path of the route that was current before
C28_ThrowLikeErrorValue ==
    \A i \in ThrownAt :
        LET k == last.events[i].attempt
        IN /\ ToldAfter(i, "abort", k)
           /\ ToldAfter(i, "errorCbs", k)
           /\ AbortCallbackOf(k) = "caller" => ToldAfter(i, "onAbort", k)
           /\ url = cleanPath(last.current.fullPath)


----------------------------------------------------------------------------
(* Properties of the values passed to proceed *)

\* no value, true, null, a number, a function, an object without path and name
OtherValues == { Nothing, Bool(TRUE), Null, ANumber, AFunction, PlainObject }

\* the guards queued after the one call k is waiting for; once the first
\* queue is through, the guards of the second
QueuedNext(k) ==
    LET a == attempts[k]
        rest == SelectSeq(SubSeq(a.queue, a.index + 1, Len(a.queue)),
                          LAMBDA g : g # NoGuard)
    IN IF rest # <<>> \/ a.second THEN rest
       ELSE SelectSeq(extractEnterGuards(records, a.activated)
                          \o hookGuards("resolve", resolveHooks),
                      LAMBDA g : g # NoGuard)

\* C29: when the hook a call that is still pending waits for passes to proceed
\* no value, true, null, a number, a function or an object without path and
\* name, the engine goes on with the guard queued next (or commits, when none
\* is left); the call is not aborted and nothing is thrown
C29_OtherValuesContinue ==
    [][(last'.op = "proceed" /\ ~last'.stale /\ last'.value \in OtherValues) =>
          LET k == last'.attempt
              events == last'.events
          IN /\ \A i \in 1..Len(events) :
                    ~(events[i].type \in {"abort", "throw"} /\ events[i].attempt = k)
             /\ events # <<>>
             /\ IF QueuedNext(k) # <<>>
                THEN events[1] = Ev("guard", k, QueuedNext(k)[1])
                ELSE events[1].type = "updateRoute" /\ events[1].attempt = k]_vars


----------------------------------------------------------------------------
(* Properties of resolveQueue and of the order of the in-component guards *)

\* the first index, counted from 0, at which chains c and t differ: the
\* record of one is not the record of the other, or one of them has ended;
\* the longer length when they differ nowhere
FirstDifferent(c, t) ==
    LET differ == { j \in 0..Max(Len(c), Len(t)) - 1 : At(c, j + 1) # At(t, j + 1) }
    IN IF differ = {} THEN Max(Len(c), Len(t))
       ELSE CHOOSE j \in differ : \A other \in differ : j <= other

\* the guard `name` of the component of record r, of category cat
GuardOfRecord(r, name, cat) ==
    IF name \in componentOptions(records[r].component) THEN Guard(cat, r) ELSE NoGuard

\* C30: with i the first index at which the current chain c and the target
\* chain t differ (the longer length if they differ nowhere), updated is
\* t[0..i), activated is t[i..) and deactivated is c[i..); updated followed by
\* activated is t, and updated is a prefix of c as well; the leave guards are
\* those of deactivated from the leaf to the root, the enter guards those of
\* activated from the root to the leaf
C30_QueueSplitsAtFirstDifference ==
    queued # NoQueue =>
        LET c == qcall.current
            t == qcall.next
            i == FirstDifferent(c, t)
            n == Len(queued.deactivated)
        IN /\ i <= Len(t)
           /\ queued.updated = [j \in 1..i |-> t[j]]
           /\ queued.activated = [j \in 1..Len(t) - i |-> t[i + j]]
           /\ queued.deactivated = [j \in 1..Len(c) - i |-> c[i + j]]
           /\ queued.updated \o queued.activated = t
           /\ Len(queued.updated) <= Len(c)
           /\ \A j \in 1..Len(queued.updated) : queued.updated[j] = c[j]
           /\ Len(queued.leave) = n
           /\ \A j \in 1..n :
                 queued.leave[j] =
                     GuardOfRecord(queued.deactivated[n + 1 - j], "beforeRouteLeave", "leave")
           /\ Len(queued.enter) = Len(queued.activated)
           /\ \A j \in 1..Len(queued.activated) :
                 queued.enter[j] =
                     GuardOfRecord(queued.activated[j], "beforeRouteEnter", "enter")

\* a call that keeps a record, leaves two records with leave guards and
\* enters one with an enter guard
C30_Witness ==
    /\ queued # NoQueue
    /\ Len(queued.updated) >= 1
    /\ Len(queued.deactivated) >= 2
    /\ Len(queued.activated) >= 1
    /\ \A j \in 1..2 : queued.leave[j] # NoGuard
    /\ queued.enter[1] # NoGuard


----------------------------------------------------------------------------
(* Properties of the ready state under aborts *)

\* the events of a handler that flush the ready or the ready-error callbacks
FlushesIn(events) ==
    { i \in 1..Len(events) : events[i].type \in {"readyCbs", "readyErrorCbs"} }

\* the call of the abort event i of a handler began while START was current:
\* a call in flight before the handler has its prev, a call the handler
\* began has the route current when it began
BegunFromStart(events, i) ==
    LET k == events[i].attempt
        begun == { j \in 1..i : events[j].type = "transitionTo" /\ events[j].attempt = k }
    IN IF k \in Live(attempts) THEN attempts[k].fromId = 0
       ELSE /\ currentId = 0
            /\ \A j \in begun : \A c \in 1..j : events[c].type # "updateRoute"

\* right after the abort event i, and after the abort callback of its call if
\* one was given, the handler flushed the ready-error callbacks with the failure
ErrorFlushAfter(events, i) ==
    \E j \in {i + 1, i + 2} \cap DOMAIN events :
        /\ events[j] = Ev("readyErrorCbs", events[i].attempt, events[i].detail)
        /\ j = i + 2 => /\ events[i + 1].type \in {"onAbort", "reject"}
                        /\ events[i + 1].attempt = events[i].attempt

\* C31: an abort while the engine is not ready marks it ready and flushes the
\* ready-error callbacks, unless the failure is of kind redirected and the
\* call began from START: then that abort flushes nothing and leaves ready
\* false; an abort while the engine is ready flushes nothing.  Ready never
\* returns to false, and in the lifetime of the engine at most one flush, of
\* the ready or of the ready-error callbacks, happens: only a handler entered
\* while not ready flushes, it flushes once, and it leaves the engine ready
C31_AbortMarksReady ==
    [][LET events == last'.events
           flushes == FlushesIn(events)
       IN /\ ready => ready'
          /\ Cardinality(flushes) <= 1
          /\ flushes # {} => ~ready /\ ready'
          /\ \A i \in 1..Len(events) :
                events[i].type = "abort" =>
                    LET readyThen == ready \/ \E j \in flushes : j < i
                        initialRedirect == events[i].detail = "redirected"
                                               /\ BegunFromStart(events, i)
                    IN /\ ErrorFlushAfter(events, i) <=> (~readyThen /\ ~initialRedirect)
                       /\ (~readyThen /\ initialRedirect) =>
                              \A j \in flushes : j > i + 2]_vars

\* an abort flushed the ready-error callbacks and a callback registered with
\* onReady got the failure
C31_Witness ==
    /\ ~last.ready
    /\ ready
    /\ \E i \in 1..Len(last.events) :
          /\ last.events[i].type = "abort"
          /\ ErrorFlushAfter(last.events, i)
    /\ \E i \in 1..Len(last.events) : last.events[i].type = "readyErrorCb"


----------------------------------------------------------------------------
(* Properties of pending *)

\* the handler began one call and ended it as duplicated, and did nothing else
DuplicatedOnly(events) ==
    /\ events # <<>>
    /\ events[1].type = "transitionTo"
    /\ \E i \in 1..Len(events) :
          events[i] = Ev("abort", events[1].attempt, "duplicated")
    /\ \A i \in 2..Len(events) : events[i].type # "transitionTo"

\* C32: a navigation classified as duplicated leaves pending as it was, so
\* that a call in flight stays the pending one
C32_DuplicatedLeavesPending ==
    [][DuplicatedOnly(last'.events) => pending' = pending]_vars


\* C33: pending is set only while the guard queue of its call is running:
\* pending is null or a call that is still in flight, so with no call in
\* flight, after a commit or an abort of any kind, pending is null
C33_PendingOnlyInFlight == pending # 0 => pending \in Live(attempts)


----------------------------------------------------------------------------
(* Properties of the location of the window *)

\* the events of a handler that end a call: its commit or its abort
CallEndsIn(events) ==
    { i \in 1..Len(events) : events[i].type \in {"abort", "updateRoute"} }

\* the events of a handler that write the location of the window
WritesIn(events) ==
    { i \in 1..Len(events) : events[i].type \in {"pushState", "replaceState"} }

\* C34: when the last call a handler ended was committed, or aborted as
\* duplicated, by proceed(false) or with a guard error, passed to proceed or
\* thrown, the location of the window is then the full path of current; a
\* call aborted as cancelled or redirected has written nothing: no write
\* precedes its abort in the handler, and the location is as it was when the
\* handler neither began nor committed a call
C34_LocationFollowsCurrent ==
    [][LET events == last'.events
           ends == CallEndsIn(events)
       IN /\ ends # {} =>
                LET e == events[CHOOSE i \in ends : \A j \in ends : j <= i]
                IN (e.type = "updateRoute" \/ e.detail \in {"duplicated", "aborted", "error"})
                       => url' = cleanPath(current'.fullPath)
          /\ \A i \in ends :
                (events[i].type = "abort" /\ events[i].detail \in {"cancelled", "redirected"})
                    => /\ \A w \in WritesIn(events) : w > i
                       /\ (\A j \in 1..Len(events) :
                               events[j].type \notin {"transitionTo", "updateRoute"})
                              => url' = url]_vars


----------------------------------------------------------------------------
(* Properties of the registration of names and paths *)

----------------------------------------------------------------------------
(* Properties of a guard that calls proceed again *)

\* C36: a call sets current to its route at most once, also when its guard
\* calls proceed again, before or after the call has committed or was
\* aborted: the commits of the call up to a handler and in it are at most one
C36_CommitsOnce ==
    [][\A k \in Touched' :
          CommitsFrom(last'.events, 1, k)
              + (IF k \in Live(attempts) THEN attempts[k].commits ELSE 0) <= 1]_vars

\* the guard of a call that has committed called proceed again, while no
\* other call was pending, and the call was aborted as cancelled
C36_Witness ==
    /\ last.op = "proceed"
    /\ callsProceedAgain(last.guard)
    /\ last.value = Nothing
    /\ last.attempt \in Live(attempts)
    /\ attempts[last.attempt].commits = 1
    /\ pending = 0
    /\ \E i \in 1..Len(last.events) :
          last.events[i] = Ev("abort", last.attempt, "cancelled")


----------------------------------------------------------------------------
(* Termination of a call *)

\* call k has begun and its guard queue has not ended
InFlight(k) == k \in DOMAIN attempts /\ attempts[k].live

\* call k has ended
Ended(k) == k \in DOMAIN attempts /\ ~attempts[k].live

\* the times a handler with these events called the completion callback or
\* the abort callback of call k
OutcomesOf(events, k) ==
    Cardinality({ i \in 1..Len(events) :
                    events[i].attempt = k /\ events[i].type \in {"updateRoute", "abort"} })

\* C37: when every guard that is invoked calls proceed once in the end, with
\* a value the callback takes without throwing, and no guard throws, a call
\* ends, and in the handler in which it ends exactly one of its completion
\* callback and its abort callback is called, once; no handler calls either
\* for a call that goes on or has ended.  This holds with and without other
\* navigations in between
C37_CallEndsOnce ==
    /\ \A k \in 1..MaxRouterNavigations : InFlight(k) ~> Ended(k)
    /\ [][\A k \in DOMAIN attempts' :
             OutcomesOf(last'.events, k) =
                 IF Ended(k)' /\ ~Ended(k) THEN 1 ELSE 0]_vars

\* a call that waited at two guards has ended by its completion callback
C37_Witness ==
    /\ last.op = "proceed"
    /\ last.guard = Guard("resolve", 1)
    /\ Ended(last.attempt)
    /\ \E i \in 1..Len(last.events) :
          last.events[i].type = "updateRoute" /\ last.events[i].attempt = last.attempt


----------------------------------------------------------------------------
(* Nested records in pathList *)

\* the position of a path in pathList
PositionOf(path) == CHOOSE i \in 1..Len(pathList) : pathList[i] = path

\* record r is the one its path is bound to: its registration test passed
Placed(r) == pathMap[records[r].path] = r

\* record d is nested in record r
NestedIn(d, r) ==
    LET chain == formatMatch(records, d)
    IN d # r /\ \E i \in 1..Len(chain) : chain[i] = r

\* paths given to the matcher
ProbedPaths ==
    { S("u"), S("w"), S("a"), S("a") \o S("c"), S("a") \o S("c") \o S("x"),
      S("a") \o S("u"), S("x") \o S("e"), S("x"), S("q") }

\* C38: the path a record placed in pathList comes after the path of every
\* record nested in it that placed its path, so the first entry of pathList
\* whose pattern matches a path is never that of a record when the pattern of
\* such a nested record matches the path too
C38_NestedBeforeAncestor ==
    /\ \A r, d \in 1..Len(records) :
          (NestedIn(d, r) /\ Placed(r) /\ Placed(d))
              => PositionOf(records[d].path) < PositionOf(records[r].path)
    /\ \A path \in ProbedPaths :
          LET i == firstMatch(Table, path)
          IN i # 0 =>
                \A d \in 1..Len(records) :
                    (NestedIn(d, pathMap[pathList[i]]) /\ Placed(d))
                        => ~regexExec(records[d].path, path, <<>>).ok

\* addRoutes has run; a record of path '*', which was moved to the end, and a
\* record nested in it are both placed and their patterns match one path,
\* for which the nested record is found; so it is for a record with a param
C38_Witness ==
    /\ calls = 1
    /\ \A star \in {TRUE, FALSE} :
          \E r, d \in 1..Len(records) :
              /\ NestedIn(d, r) /\ Placed(r) /\ Placed(d)
              /\ IsWildcard(records[r].path) = star
              /\ \E path \in ProbedPaths :
                    /\ regexExec(records[r].path, path, <<>>).ok
                    /\ regexExec(records[d].path, path, <<>>).ok
                    /\ pathMap[pathList[firstMatch(Table, path)]] = d


----------------------------------------------------------------------------
(* Params of a location matched by its path *)

\* the location match() works on
NormalizedCall == normalizeLocation(mraw, mcur, FALSE, records)

\* the record of the first entry of pathList whose pattern matches the path
\* of the normalized location, 0 when the location has a name, has no path
\* or no pattern matches
FirstMatching ==
    IF NormalizedCall.name # "" \/ NormalizedCall.path = <<>> THEN 0
    ELSE LET i == firstMatch(Table, NormalizedCall.path)
         IN IF i = 0 THEN 0 ELSE pathMap[pathList[i]]

\* what the pattern captures from the path, by the name of each key
CapturesOf(pattern, path) ==
    LET caps == regexExec(pattern, path, <<>>).caps
        keys == compileRouteRegex(pattern)
        NameAt(i) == IF keys[i].asterisk THEN "pathMatch" ELSE keys[i].name
        LastAt(name) == CHOOSE i \in 1..Len(caps) :
                           NameAt(i) = name /\ \A j \in (i + 1)..Len(caps) : NameAt(j) # name
    IN [name \in { NameAt(i) : i \in 1..Len(caps) } |-> caps[LastAt(name)]]

\* the record neither redirects nor stands for another record's path
CreatesItsOwnRoute(record) ==
    records[record].redirect.kind = "none" /\ records[record].matchAs = <<>>

\* the call with the path taken out of the raw location
MatchByNameOnly ==
    match(Table, [mraw EXCEPT !.path = <<>>], mcur, NoLocation, production, StackLimit)

\* a raw location with a name and a path finds what its name alone finds
NameAloneDecides ==
    (mres # NoResult /\ mraw.name # "") =>
        /\ mres.thrown = MatchByNameOnly.thrown
        /\ ~mres.thrown =>
              /\ mres.route.matched = MatchByNameOnly.route.matched
              /\ mres.route.name = MatchByNameOnly.route.name
              /\ mres.route.params = MatchByNameOnly.route.params
              /\ mraw.name \in DOMAIN nameMap => mres = MatchByNameOnly

\* C39 as stated: whenever the normalized location has a path and no name
\* and some record matches, the params of the Route returned are the captures
\* of the first matching record
C39_ParamsAreFirstCaptures ==
    /\ (mres # NoResult /\ FirstMatching # 0) =>
          /\ ~mres.thrown
          /\ mres.route.params = CapturesOf(records[FirstMatching].path, NormalizedCall.path)
    /\ NameAloneDecides

\* C39: when the normalized location has a path and no name and the first
\* matching record neither redirects nor is an alias, the params of the Route
\* returned are exactly the captures of that record from that path, whatever
\* params the caller gave; and a location with a name and a path is matched
\* by its name alone
C39_ParamsAreOwnCaptures ==
    /\ (mres # NoResult /\ FirstMatching # 0 /\ CreatesItsOwnRoute(FirstMatching)) =>
          /\ ~mres.thrown
          /\ mres.route.params = CapturesOf(records[FirstMatching].path, NormalizedCall.path)
    /\ NameAloneDecides

\* a path given with params was matched by the first of two records that
\* match it and the caller's params are not in the Route
C39_Witness ==
    /\ mres # NoResult
    /\ mraw.name = "" /\ mraw.path # <<>> /\ mraw.hasParams /\ mraw.params # EmptyMap
    /\ FirstMatching # 0 /\ CreatesItsOwnRoute(FirstMatching)
    /\ \E record \in 1..Len(records) :
          /\ record # FirstMatching /\ pathMap[records[record].path] = record
          /\ regexExec(records[record].path, NormalizedCall.path, <<>>).ok
          /\ PositionOf(records[record].path) < Len(pathList)
    /\ mres.route.params # EmptyMap
    /\ "z" \notin DOMAIN mres.route.params


----------------------------------------------------------------------------
(* Properties of resolvePath *)

\* C40: for a base path that begins with '/' and a relative path that begins
\* with none of '/', '?' and '#', with and without append, resolvePath returns
\* a path that is not empty and begins with '/'
C40_ResolvedPathIsRooted ==
    pathResolved # NoPath =>
        /\ pathResolved.path # <<>>
        /\ pathResolved.path[1] = "/"

====
